---- MODULE Spec2Model ----
(***************************************************************************)
(* A model of the single-frame EVM interpreter of Rust_EVM: the opcode     *)
(* table, the stack, the memory, the gas meter, the event logger and the   *)
(* executor's decode/dispatch loop.                                        *)
(*                                                                         *)
(* Conventions.  A Vec<T> is a sequence; offset i of a byte vector is      *)
(* element i+1.  A Uint256 wraps an unbounded BigUint (types/uint256.rs),  *)
(* so it is a natural number here.  A Result<T, E> is a record with an     *)
(* `err` field, NoError for Ok.  A function that takes &mut self returns   *)
(* the object after the call beside its result, also when it fails.        *)
(***************************************************************************)
EXTENDS Integers, Sequences, FiniteSets, TLC

(***************************************************************************)
(* Bounds of the model.                                                    *)
(***************************************************************************)
\* Longest program assembled from InstrSet, in instructions.
MaxInstrs == 2
\* Gas limits 0..MaxGas are tried for every program, beside TestGasLimit.
MaxGas == 24
\* Capacity given to Stack::with_max_size in the stand-alone stack runs.
MaxStack == 3
\* Gas limit of the stand-alone gas meter runs, and the amounts passed to it.
MaxMeterLimit == 8

(***************************************************************************)
(* Errors (the Err side of the Results).                                   *)
(***************************************************************************)
NoError == [type |-> "None"]

\* StackError::Overflow / StackError::Underflow
StackOverflow == [type |-> "Stack", kind |-> "Overflow"]

StackUnderflow == [type |-> "Stack", kind |-> "Underflow"]

\* GasError::OutOfGas { required, available }
OutOfGas(required, available) ==
    [type |-> "Gas", kind |-> "OutOfGas", required |-> required, available |-> available]

\* OpcodeError::InvalidOpcode { opcode }
InvalidOpcode(byte) == [type |-> "Opcode", kind |-> "InvalidOpcode", opcode |-> byte]

\* ExecutionError::InvalidInstruction(message)
InvalidInstruction(message) == [type |-> "InvalidInstruction", message |-> message]

IsOk(r) == r.err.type = "None"

\* A panic: the call unwinds instead of returning a Result.
Panic(message) == [type |-> "Panic", message |-> message]

(***************************************************************************)
(* Opcode table (opcodes/mod.rs).  An Opcode is its discriminant byte.     *)
(***************************************************************************)
Op ==
    [Stop |-> 0, Add |-> 1, Mul |-> 2, Sub |-> 3, Div |-> 4, Sdiv |-> 5, Mod |-> 6,
     Smod |-> 7, Addmod |-> 8, Mulmod |-> 9, Exp |-> 10, Signextend |-> 11,
     Lt |-> 16, Gt |-> 17, Slt |-> 18, Sgt |-> 19, Eq |-> 20, Iszero |-> 21,
     And |-> 22, Or |-> 23, Xor |-> 24, Not |-> 25, Byte |-> 26, Shl |-> 27,
     Shr |-> 28, Sar |-> 29, Sha3 |-> 32,
     Address |-> 48, Balance |-> 49, Origin |-> 50, Caller |-> 51, Callvalue |-> 52,
     Calldataload |-> 53, Calldatasize |-> 54, Calldatacopy |-> 55, Codesize |-> 56,
     Codecopy |-> 57, Gasprice |-> 58, Extcodesize |-> 59, Extcodecopy |-> 60,
     Returndatasize |-> 61, Returndatacopy |-> 62, Extcodehash |-> 63,
     Blockhash |-> 64, Coinbase |-> 65, Timestamp |-> 66, Number |-> 67,
     Difficulty |-> 68, Gaslimit |-> 69, Chainid |-> 70, Selfbalance |-> 71,
     Pop |-> 80, Mload |-> 81, Mstore |-> 82, Mstore8 |-> 83, Sload |-> 84,
     Sstore |-> 85, Jump |-> 86, Jumpi |-> 87, Pc |-> 88, Msize |-> 89,
     Jumpdest |-> 91,
     Push1 |-> 96, Push32 |-> 127, Dup1 |-> 128, Dup16 |-> 143,
     Swap1 |-> 144, Swap16 |-> 159,
     Log0 |-> 160, Log1 |-> 161, Log2 |-> 162, Log3 |-> 163, Log4 |-> 164,
     Create |-> 240, Call |-> 241, Callcode |-> 242, Return |-> 243,
     Delegatecall |-> 244, Create2 |-> 245, Staticcall |-> 250, Revert |-> 253,
     Selfdestruct |-> 255]

\* The bytes Opcode::from_byte maps one-to-one to the opcode of that value.
DirectBytes ==
    (0..11) \cup (16..29) \cup {32} \cup (48..71) \cup (80..89) \cup {91}
        \cup (160..164) \cup (240..245) \cup {250, 253, 255}

\* Opcode::from_byte with a catch-all arm that decodes to Stop.
from_byte_lenient(byte) ==
    IF byte \in DirectBytes THEN [opcode |-> byte, err |-> NoError]
    ELSE IF byte >= 96 /\ byte <= 127 THEN [opcode |-> 96, err |-> NoError]
    ELSE IF byte >= 128 /\ byte <= 143 THEN [opcode |-> 128, err |-> NoError]
    ELSE IF byte >= 144 /\ byte <= 159 THEN [opcode |-> 144, err |-> NoError]
    ELSE [opcode |-> 0, err |-> NoError]

\* Opcode::from_byte.  Every byte of 0x60..=0x7f decodes to Push1, every
\* byte of 0x80..=0x8f to Dup1 and every byte of 0x90..=0x9f to Swap1.
from_byte(byte) ==
    IF byte \in DirectBytes THEN [opcode |-> byte, err |-> NoError]
    ELSE IF byte >= 96 /\ byte <= 127 THEN [opcode |-> Op.Push1, err |-> NoError]
    ELSE IF byte >= 128 /\ byte <= 143 THEN [opcode |-> Op.Dup1, err |-> NoError]
    ELSE IF byte >= 144 /\ byte <= 159 THEN [opcode |-> Op.Swap1, err |-> NoError]
    ELSE [opcode |-> byte, err |-> InvalidOpcode(byte)]

is_push(opcode) == opcode >= 96 /\ opcode <= 127

is_dup(opcode) == opcode >= 128 /\ opcode <= 143

is_swap(opcode) == opcode >= 144 /\ opcode <= 159

dup_depth(opcode) == IF is_dup(opcode) THEN opcode - 128 ELSE 0

swap_depth(opcode) == IF is_swap(opcode) THEN opcode - 144 ELSE 0

get_push_size(opcode) == IF is_push(opcode) THEN opcode - 96 + 1 ELSE 0

\* Opcode::pop_count
pop_count(opcode) ==
    IF opcode \in {Op.Add, Op.Mul, Op.Sub, Op.Div, Op.Sdiv, Op.Mod, Op.Smod,
                   Op.Addmod, Op.Mulmod, Op.Exp, Op.Signextend} THEN 2
    ELSE IF opcode \in {Op.Iszero, Op.Not} THEN 1
    ELSE IF opcode \in {Op.Lt, Op.Gt, Op.Slt, Op.Sgt, Op.Eq, Op.And, Op.Or, Op.Xor,
                        Op.Byte, Op.Shl, Op.Shr, Op.Sar} THEN 2
    ELSE IF opcode = Op.Sha3 THEN 2
    ELSE IF opcode \in {Op.Calldataload, Op.Sload, Op.Mload} THEN 1
    ELSE IF opcode \in {Op.Calldatacopy, Op.Codecopy, Op.Extcodecopy,
                        Op.Returndatacopy} THEN 3
    ELSE IF opcode \in {Op.Mstore, Op.Mstore8, Op.Sstore} THEN 2
    ELSE IF opcode = Op.Pop THEN 1
    ELSE IF opcode = Op.Jump THEN 1
    ELSE IF opcode = Op.Jumpi THEN 2
    ELSE IF opcode = Op.Log0 THEN 2
    ELSE IF opcode = Op.Log1 THEN 3
    ELSE IF opcode = Op.Log2 THEN 4
    ELSE IF opcode = Op.Log3 THEN 5
    ELSE IF opcode = Op.Log4 THEN 6
    ELSE IF opcode \in {Op.Create, Op.Create2} THEN 3
    ELSE IF opcode \in {Op.Call, Op.Callcode, Op.Delegatecall, Op.Staticcall} THEN 7
    ELSE IF opcode \in {Op.Return, Op.Revert} THEN 2
    ELSE IF opcode = Op.Selfdestruct THEN 1
    ELSE 0

(***************************************************************************)
(* Stack (stack/mod.rs): items is the Vec, its last element the top.       *)
(***************************************************************************)
\* Stack::new
Stack_new == [items |-> <<>>, max_size |-> 1024]

\* Stack::with_max_size
Stack_with_max_size(max_size) == [items |-> <<>>, max_size |-> max_size]

Stack_size(s) == Len(s.items)

\* Stack::push comparing with > in place of >=.
Stack_push_off_by_one(s, value) ==
    IF Len(s.items) > s.max_size
    THEN [stack |-> s, err |-> StackOverflow]
    ELSE [stack |-> [s EXCEPT !.items = Append(@, value)], err |-> NoError]

\* Stack::push
Stack_push(s, value) ==
    IF Len(s.items) >= s.max_size
    THEN [stack |-> s, err |-> StackOverflow]
    ELSE [stack |-> [s EXCEPT !.items = Append(@, value)], err |-> NoError]

\* Stack::pop
Stack_pop(s) ==
    IF s.items = <<>>
    THEN [stack |-> s, value |-> 0, err |-> StackUnderflow]
    ELSE [stack |-> [s EXCEPT !.items = SubSeq(@, 1, Len(@) - 1)],
          value |-> s.items[Len(s.items)], err |-> NoError]

\* Stack::peek
Stack_peek(s) ==
    IF s.items = <<>>
    THEN [value |-> 0, err |-> StackUnderflow]
    ELSE [value |-> s.items[Len(s.items)], err |-> NoError]

\* Stack::peek_at
Stack_peek_at(s, depth) ==
    IF depth >= Len(s.items)
    THEN [value |-> 0, err |-> StackUnderflow]
    ELSE [value |-> s.items[Len(s.items) - depth], err |-> NoError]

\* Stack::dup
Stack_dup(s, depth) ==
    IF depth >= Len(s.items)
    THEN [stack |-> s, err |-> StackUnderflow]
    ELSE Stack_push(s, s.items[Len(s.items) - depth])

\* Stack::swap refusing the deepest item it could reach.
Stack_swap_off_by_one(s, depth) ==
    IF depth + 1 >= Len(s.items)
    THEN [stack |-> s, err |-> StackUnderflow]
    ELSE LET len == Len(s.items)
             a == s.items[len]
             b == s.items[len - depth]
         IN [stack |-> [s EXCEPT !.items = [[@ EXCEPT ![len] = b] EXCEPT ![len - depth] = a]],
             err |-> NoError]

\* Stack::swap
Stack_swap(s, depth) ==
    IF depth >= Len(s.items)
    THEN [stack |-> s, err |-> StackUnderflow]
    ELSE LET len == Len(s.items)
             a == s.items[len]
             b == s.items[len - depth]
         IN [stack |-> [s EXCEPT !.items = [[@ EXCEPT ![len] = b] EXCEPT ![len - depth] = a]],
             err |-> NoError]

\* `let x = value;` followed by Body(x): the value is computed once.
Bind(value, Body(_)) == CHOOSE r \in {Body(x) : x \in {value}} : TRUE

\* n calls of Stack::pop, each followed by `?`: the values in the order they
\* were popped; the pops made before a failing one stay made.
PopN(s, n) ==
    LET after[k \in 0..n] ==
            IF k = 0 THEN [stack |-> s, values |-> <<>>, err |-> NoError]
            ELSE Bind(after[k - 1], LAMBDA q:
                    IF ~IsOk(q) THEN q
                    ELSE Bind(Stack_pop(q.stack), LAMBDA p:
                            IF ~IsOk(p)
                            THEN [stack |-> p.stack, values |-> q.values, err |-> p.err]
                            ELSE [stack |-> p.stack, values |-> Append(q.values, p.value),
                                  err |-> NoError]))
    IN after[n]

(***************************************************************************)
(* Gas meter (gas/mod.rs).                                                 *)
(***************************************************************************)
\* impl Default for GasCosts
GasCosts ==
    [base |-> 2, very_low |-> 3, low |-> 5, mid |-> 8, high |-> 10,
     add |-> 3, mul |-> 5, sub |-> 3, div |-> 5, sdiv |-> 5, mod_ |-> 5, smod |-> 5,
     addmod |-> 8, mulmod |-> 8, exp |-> 10, signextend |-> 5,
     lt |-> 3, gt |-> 3, slt |-> 3, sgt |-> 3, eq |-> 3, iszero |-> 3,
     and |-> 3, or |-> 3, xor |-> 3, not |-> 3, byte |-> 3, shl |-> 3, shr |-> 3,
     sar |-> 3, keccak256 |-> 30, keccak256_word |-> 6,
     address |-> 2, balance |-> 100, origin |-> 2, caller |-> 2, callvalue |-> 2,
     calldataload |-> 3, calldatasize |-> 2, calldatacopy |-> 3, codesize |-> 2,
     codecopy |-> 3, gasprice |-> 2, extcodesize |-> 100, extcodecopy |-> 100,
     returndatasize |-> 2, returndatacopy |-> 3, extcodehash |-> 100,
     blockhash |-> 20, coinbase |-> 2, timestamp |-> 2, number |-> 2,
     difficulty |-> 2, gaslimit |-> 2, chainid |-> 2, selfbalance |-> 5,
     sload |-> 100, sstore |-> 100, sstore_set |-> 20000, sstore_reset |-> 5000,
     sstore_clear |-> 15000,
     mload |-> 3, mstore |-> 3, mstore8 |-> 3, msize |-> 2,
     push |-> 3, dup |-> 3, swap |-> 3, pop |-> 2,
     jump |-> 8, jumpi |-> 10, pc |-> 2, jumpdest |-> 1,
     log0 |-> 375, log1 |-> 750, log2 |-> 1125, log3 |-> 1500, log4 |-> 1875,
     log_topic |-> 375, log_data |-> 8,
     create |-> 32000, call |-> 100, callcode |-> 100, delegatecall |-> 100,
     staticcall |-> 100, return_ |-> 0, revert |-> 0, selfdestruct |-> 5000,
     selfdestruct_refund |-> 24000,
     warm_storage_read |-> 100, cold_storage_read |-> 2100,
     access_list_storage_key |-> 1900, access_list_address |-> 2400]

\* GasMeter::new
GasMeter_new(gas_limit) == [available |-> gas_limit, limit |-> gas_limit]

\* GasMeter::used: a u64 subtraction, which overflows when available > limit
\* (a panic in a debug build, a wrapped value in a release build).
GasMeter_used(m) ==
    IF m.available <= m.limit THEN m.limit - m.available ELSE -1

\* GasMeter::consume
GasMeter_consume(m, amount) ==
    IF amount > m.available
    THEN [meter |-> m, err |-> OutOfGas(amount, m.available)]
    ELSE [meter |-> [m EXCEPT !.available = @ - amount], err |-> NoError]

Min(a, b) == IF a <= b THEN a ELSE b

\* GasMeter::refund without the cap of half the gas used.
GasMeter_refund_uncapped(m, amount) == [m EXCEPT !.available = @ + amount]

\* GasMeter::refund
GasMeter_refund(m, amount) ==
    LET max_refund == GasMeter_used(m) \div 2
        refund == Min(amount, max_refund)
    IN [m EXCEPT !.available = @ + refund]

\* GasMeter::memory_expansion_cost without the quadratic term.
memory_expansion_cost_linear(current_size, new_size) ==
    IF new_size <= current_size THEN 0
    ELSE LET current_words == (current_size + 31) \div 32
             new_words == (new_size + 31) \div 32
         IN IF new_words <= current_words THEN 0
            ELSE (new_words - current_words) * 3

\* GasMeter::memory_expansion_cost
memory_expansion_cost(current_size, new_size) ==
    IF new_size <= current_size THEN 0
    ELSE LET current_words == (current_size + 31) \div 32
             new_words == (new_size + 31) \div 32
         IN IF new_words <= current_words THEN 0
            ELSE (new_words - current_words) * 3
                   + (new_words * new_words) \div 512
                   - (current_words * current_words) \div 512

(***************************************************************************)
(* Uint256 conversions (types/uint256.rs).                                 *)
(***************************************************************************)
Zeros(n) == [i \in 1..n |-> 0]

\* BigUint::to_bytes_be: the big-endian digits base 256, <<0>> for zero.
RECURSIVE BigBytes(_)
BigBytes(v) == IF v < 256 THEN <<v>> ELSE BigBytes(v \div 256) \o <<v % 256>>

\* Uint256::to_bytes_be, for a value below 2^256.
to_bytes_be(v) == LET bytes == BigBytes(v) IN Zeros(32 - Len(bytes)) \o bytes

\* Uint256::from_bytes_be: the big-endian value of the bytes.
from_bytes_be(bytes) ==
    LET acc[k \in 0..Len(bytes)] == IF k = 0 THEN 0 ELSE acc[k - 1] * 256 + bytes[k]
    IN acc[Len(bytes)]

\* Uint256::to_u64 / `as usize`: the lowest 64-bit digit.  The values of
\* this model stay far below 2^64, where it is the value itself.
to_u64(v) == v

\* Uint256::to_u8: the low byte of the lowest 32-bit digit.
to_u8(v) == v % 256

(***************************************************************************)
(* Memory (memory/mod.rs): data is the Vec<u8>.                            *)
(***************************************************************************)
Memory_new == <<>>

Memory_size(data) == Len(data)

\* Memory::ensure_size
ensure_size(data, size) ==
    IF Len(data) < size THEN data \o Zeros(size - Len(data)) ELSE data

\* Memory::write_byte
write_byte(data, offset, value) ==
    [ensure_size(data, offset + 1) EXCEPT ![offset + 1] = value]

\* Memory::write_bytes
write_bytes(data, offset, bytes) ==
    LET grown == ensure_size(data, offset + Len(bytes)) IN
    [i \in 1..Len(grown) |->
        IF i > offset /\ i <= offset + Len(bytes) THEN bytes[i - offset] ELSE grown[i]]

\* Memory::write_word
write_word(data, offset, value) ==
    LET grown == ensure_size(data, offset + 32)
        bytes == to_bytes_be(value)
    IN [i \in 1..Len(grown) |->
          IF i > offset /\ i <= offset + 32 THEN bytes[i - offset] ELSE grown[i]]

\* Memory::read_bytes that returns only the bytes the memory holds.
read_bytes_unpadded(data, offset, size) ==
    [i \in 1..(IF offset >= Len(data) THEN 0 ELSE Min(size, Len(data) - offset))
        |-> data[offset + i]]

\* Memory::read_bytes
read_bytes(data, offset, size) ==
    [i \in 1..size |-> IF offset + i <= Len(data) THEN data[offset + i] ELSE 0]

\* Memory::copy moving one byte after the other from the lowest offset,
\* without the temporary buffer.  at[k] is the data after k bytes.
copy_unbuffered(data, dest_offset, src_offset, size) ==
    LET grown == ensure_size(ensure_size(data, dest_offset + size), src_offset + size)
        at[k \in 0..size] ==
            IF k = 0 THEN grown
            ELSE [at[k - 1] EXCEPT ![dest_offset + k] = at[k - 1][src_offset + k]]
    IN IF size = 0 THEN data ELSE at[size]

\* Memory::copy
copy(data, dest_offset, src_offset, size) ==
    IF size = 0 THEN data
    ELSE LET grown == ensure_size(ensure_size(data, dest_offset + size),
                                  src_offset + size)
         IN IF dest_offset < src_offset + size /\ src_offset < dest_offset + size
            THEN \* overlapping: through the temporary buffer
                 LET temp == SubSeq(grown, src_offset + 1, src_offset + size) IN
                 [i \in 1..Len(grown) |->
                     IF i > dest_offset /\ i <= dest_offset + size
                     THEN temp[i - dest_offset] ELSE grown[i]]
            ELSE \* copy_within
                 [i \in 1..Len(grown) |->
                     IF i > dest_offset /\ i <= dest_offset + size
                     THEN grown[src_offset + (i - dest_offset)] ELSE grown[i]]

\* Memory::expansion_cost
Memory_expansion_cost(data, new_size) ==
    LET current_size == Memory_size(data) IN
    IF new_size <= current_size THEN 0
    ELSE LET current_words == (current_size + 31) \div 32
             new_words == (new_size + 31) \div 32
         IN IF new_words <= current_words THEN 0
            ELSE LET additional_words == new_words - current_words
                 IN additional_words * 3 + (new_words * new_words) \div 512
                        - (current_words * current_words) \div 512

\* Memory::read_word
read_word(data, offset) ==
    from_bytes_be([i \in 1..32 |-> IF offset + i <= Len(data) THEN data[offset + i] ELSE 0])

(***************************************************************************)
(* Event logger (events/mod.rs): logs is the Vec<EventLog>.                *)
(***************************************************************************)
\* EventLogger::log that inserts the entry at the front.
EventLogger_log_front(logs, address, topics, data) ==
    <<[address |-> address, topics |-> topics, data |-> data]>> \o logs

\* EventLogger::log
EventLogger_log(logs, address, topics, data) ==
    Append(logs, [address |-> address, topics |-> topics, data |-> data])

(***************************************************************************)
(* Storage (storage/mod.rs): accounts is the HashMap<Address, Account>, a  *)
(* function on the addresses it holds; an Address is its numeric value.    *)
(***************************************************************************)
\* Account::new
Account_new == [balance |-> 0, nonce |-> 0, code |-> <<>>, storage |-> <<>>, deleted |-> FALSE]

\* Storage::new
Storage_new == <<>>

MapRemove(m, k) == [x \in (DOMAIN m) \ {k} |-> m[x]]

MapInsert(m, k, v) == [x \in (DOMAIN m) \cup {k} |-> IF x = k THEN v ELSE m[x]]

\* Account::get_storage
Account_get_storage(account, key) ==
    IF key \in DOMAIN account.storage THEN account.storage[key] ELSE 0

\* Account::set_storage that stores the zero value as any other.
Account_set_storage_keeps_zero(account, key, value) ==
    [account EXCEPT !.storage = MapInsert(@, key, value)]

\* Account::set_storage
Account_set_storage(account, key, value) ==
    IF value = 0
    THEN [account EXCEPT !.storage = MapRemove(@, key)]
    ELSE [account EXCEPT !.storage = MapInsert(@, key, value)]

\* Storage::get_or_create_account: the map after the call.
get_or_create_account(accounts, address) ==
    IF address \in DOMAIN accounts THEN accounts
    ELSE MapInsert(accounts, address, Account_new)

\* Storage::get_balance
Storage_get_balance(accounts, address) ==
    IF address \in DOMAIN accounts THEN accounts[address].balance ELSE 0

\* Storage::get_storage that finds no slot.
Storage_get_storage_absent(accounts, address, key) == 0

\* Storage::get_storage
Storage_get_storage(accounts, address, key) ==
    IF address \in DOMAIN accounts THEN Account_get_storage(accounts[address], key) ELSE 0

\* Storage::set_storage
Storage_set_storage(accounts, address, key, value) ==
    LET created == get_or_create_account(accounts, address) IN
    [created EXCEPT ![address] = Account_set_storage(@, key, value)]

\* StorageError::InsufficientBalance
InsufficientBalance(required, available) ==
    [type |-> "InsufficientBalance", required |-> required, available |-> available]

\* Account::add_balance
Account_add_balance(account, amount) ==
    [account EXCEPT !.balance = @ + amount]

\* Account::sub_balance: the account after the call and the Result.
Account_sub_balance(account, amount) ==
    IF account.balance < amount
    THEN [account |-> account, err |-> InsufficientBalance(amount, account.balance)]
    ELSE [account |-> [account EXCEPT !.balance = @ - amount], err |-> NoError]

\* Account::increment_nonce
Account_increment_nonce(account) ==
    [account EXCEPT !.nonce = @ + 1]

\* Account::delete
Account_delete(account) ==
    [account EXCEPT !.deleted = TRUE, !.balance = 0, !.nonce = 0,
                    !.code = <<>>, !.storage = <<>>]

\* Storage::delete_account
Storage_delete_account(accounts, address) ==
    IF address \in DOMAIN accounts
    THEN [accounts EXCEPT ![address] = Account_delete(@)]
    ELSE accounts

\* Storage::set_balance
Storage_set_balance(accounts, address, balance) ==
    [get_or_create_account(accounts, address) EXCEPT ![address].balance = balance]

\* Storage::add_balance
Storage_add_balance(accounts, address, amount) ==
    [get_or_create_account(accounts, address) EXCEPT
        ![address] = Account_add_balance(@, amount)]

\* Storage::sub_balance: the map after the call and the Result.
Storage_sub_balance(accounts, address, amount) ==
    IF address \in DOMAIN accounts
    THEN LET r == Account_sub_balance(accounts[address], amount) IN
         [accounts |-> [accounts EXCEPT ![address] = r.account], err |-> r.err]
    ELSE [accounts |-> accounts, err |-> InsufficientBalance(amount, 0)]

\* Storage::get_nonce with a default of one for an absent account.
Storage_get_nonce_from_one(accounts, address) ==
    IF address \in DOMAIN accounts THEN accounts[address].nonce ELSE 1

\* Storage::get_nonce
Storage_get_nonce(accounts, address) ==
    IF address \in DOMAIN accounts THEN accounts[address].nonce ELSE 0

\* Storage::set_nonce
Storage_set_nonce(accounts, address, nonce) ==
    [get_or_create_account(accounts, address) EXCEPT ![address].nonce = nonce]

\* Storage::increment_nonce
Storage_increment_nonce(accounts, address) ==
    [get_or_create_account(accounts, address) EXCEPT
        ![address] = Account_increment_nonce(@)]

\* Storage::get_code
Storage_get_code(accounts, address) ==
    IF address \in DOMAIN accounts THEN accounts[address].code ELSE <<>>

\* Storage::set_code
Storage_set_code(accounts, address, code) ==
    [get_or_create_account(accounts, address) EXCEPT ![address].code = code]

(***************************************************************************)
(* Bytecode validator (validation/mod.rs).                                 *)
(***************************************************************************)
\* ValidationError::CodeSizeTooLarge
CodeSizeTooLarge(size, max) == [type |-> "CodeSizeTooLarge", size |-> size, max |-> max]

\* ValidationError::InvalidBytecode
InvalidBytecode(message) == [type |-> "InvalidBytecode", message |-> message]

\* ValidationError::SecurityValidation
SecurityValidation(message) == [type |-> "SecurityValidation", message |-> message]

\* Validator::with_limits, by its max_code_size
Validator_with_limits(max_code_size) ==
    [max_code_size |-> max_code_size, security_checks |-> TRUE]

\* Validator::new
Validator_new == Validator_with_limits(24576)

\* Validator::validate_opcodes: from[i] is what the loop returns when it is
\* at index i.
validate_opcodes(code) ==
    LET from[i \in 0..(Len(code) + 33)] ==
            IF i >= Len(code) THEN NoError
            ELSE LET d == from_byte(code[i + 1]) IN
                 IF ~IsOk(d) THEN InvalidBytecode("Invalid opcode")
                 ELSE IF is_push(d.opcode)
                 THEN IF i + get_push_size(d.opcode) >= Len(code)
                      THEN InvalidBytecode("PUSH opcode extends beyond code")
                      ELSE from[i + get_push_size(d.opcode) + 1]
                 ELSE from[i + 1]
    IN from[0]

\* Validator::validate_jump_destinations: both passes only walk the code,
\* and every path returns Ok.
validate_jump_destinations(code) == NoError

\* Validator::validate_security: both counts run over every byte of the code.
validate_security(code) ==
    LET expensive_opcodes ==
            Cardinality({i \in 1..Len(code) :
                IsOk(from_byte(code[i]))
                /\ from_byte(code[i]).opcode \in {Op.Exp, Op.Sstore, Op.Sha3}})
        jump_count ==
            Cardinality({i \in 1..Len(code) :
                IsOk(from_byte(code[i]))
                /\ from_byte(code[i]).opcode \in {Op.Jump, Op.Jumpi}})
    IN IF expensive_opcodes > Len(code) \div 10
       THEN SecurityValidation("Too many expensive opcodes detected")
       ELSE IF jump_count > Len(code) \div 5
       THEN SecurityValidation("Potential infinite loop detected")
       ELSE NoError

\* Validator::validate_bytecode: the error it returns, NoError for Ok(()).
validate_bytecode(validator, code) ==
    IF Len(code) > validator.max_code_size
    THEN CodeSizeTooLarge(Len(code), validator.max_code_size)
    ELSE IF validate_opcodes(code).type # "None" THEN validate_opcodes(code)
    ELSE IF validate_jump_destinations(code).type # "None"
    THEN validate_jump_destinations(code)
    ELSE IF validator.security_checks THEN validate_security(code)
    ELSE NoError

(***************************************************************************)
(* GasOptimization (advanced/mod.rs): the passes of optimize on a code.    *)
(***************************************************************************)
\* The while loop of apply_peephole_optimization from index i: PUSH1 0,
\* DUP1 becomes PUSH1 0, PUSH1 0.
RECURSIVE PeepholeFrom(_, _)
PeepholeFrom(code, i) ==
    IF i >= (IF Len(code) >= 1 THEN Len(code) - 1 ELSE 0) THEN code
    ELSE IF /\ code[i + 1] = 96
            /\ code[i + 2] = 0
            /\ i + 2 < Len(code)
            /\ code[i + 3] = 128
    THEN PeepholeFrom(SubSeq(code, 1, i + 2) \o <<96, 0>>
                          \o SubSeq(code, i + 4, Len(code)),
                      i + 3)
    ELSE PeepholeFrom(code, i + 1)

\* GasOptimization::apply_peephole_optimization
apply_peephole_optimization(code) == PeepholeFrom(code, 0)

\* The while loop of apply_constant_folding from index i: where the bytes
\* at i, i + 3 and i + 6 are 0x60, 0x60 and 0x01, the seven bytes become
\* PUSH1 of the wrapping sum of the bytes at i + 1 and i + 4.
RECURSIVE FoldingFrom(_, _)
FoldingFrom(code, i) ==
    IF i >= (IF Len(code) >= 2 THEN Len(code) - 2 ELSE 0) THEN code
    ELSE IF /\ code[i + 1] = 96
            /\ i + 3 < Len(code)
            /\ code[i + 4] = 96
            /\ i + 6 < Len(code)
            /\ code[i + 7] = 1
    THEN FoldingFrom(SubSeq(code, 1, i) \o <<96, (code[i + 2] + code[i + 5]) % 256>>
                         \o SubSeq(code, i + 8, Len(code)),
                     i + 1)
    ELSE FoldingFrom(code, i + 1)

\* GasOptimization::apply_constant_folding
apply_constant_folding(code) == FoldingFrom(code, 0)

\* The while loop of apply_dead_code_elimination from index i, result
\* being the bytes kept so far: it stops after the first STOP, RETURN or
\* REVERT that is not the byte after a PUSH.
RECURSIVE EliminationFrom(_, _, _)
EliminationFrom(code, i, result) ==
    IF i >= Len(code) THEN result
    ELSE IF code[i + 1] \in {0, 243, 253} THEN result \o <<code[i + 1]>>
    ELSE IF IsOk(from_byte(code[i + 1])) /\ is_push(from_byte(code[i + 1]).opcode)
    THEN LET push_size == get_push_size(from_byte(code[i + 1]).opcode) IN
         EliminationFrom(code, i + push_size + 1,
                         result \o SubSeq(code, i + 1, Min(i + 1 + push_size, Len(code))))
    ELSE EliminationFrom(code, i + 1, result \o <<code[i + 1]>>)

\* GasOptimization::apply_dead_code_elimination
apply_dead_code_elimination(code) == EliminationFrom(code, 0, <<>>)

\* GasOptimization::apply_stack_optimization
apply_stack_optimization(code) == code

\* GasOptimization::optimize of GasOptimization::new(), every pass enabled.
optimize(code) ==
    apply_stack_optimization(
        apply_dead_code_elimination(
            apply_constant_folding(
                apply_peephole_optimization(code))))

(***************************************************************************)
(* Execution context (executor/mod.rs).                                    *)
(***************************************************************************)
\* ExecutionContext::new
ExecutionContext_new(address, caller, call_value, input_data, code, gas_limit) ==
    [pc |-> 0,
     stack |-> Stack_new,
     memory |-> Memory_new,
     storage |-> Storage_new,
     gas_meter |-> GasMeter_new(gas_limit),
     logs |-> <<>>,
     address |-> address,
     caller |-> caller,
     call_value |-> call_value,
     input_data |-> input_data,
     code |-> code,
     return_data |-> <<>>,
     should_continue |-> TRUE,
     success |-> FALSE]

\* ExecutionContext::advance_pc
advance_pc(ctx, steps) == [ctx EXCEPT !.pc = @ + steps]

\* ExecutionContext::set_pc
set_pc(ctx, pc) ==
    IF pc >= Len(ctx.code)
    THEN [ctx |-> ctx, err |-> InvalidInstruction("Jump destination out of bounds")]
    ELSE [ctx |-> [ctx EXCEPT !.pc = pc], err |-> NoError]

\* ExecutionContext::halt
halt(ctx, success) == [ctx EXCEPT !.should_continue = FALSE, !.success = success]

\* Executor::validate_stack_requirements
validate_stack_requirements(ctx, opcode) ==
    IF Stack_size(ctx.stack) < pop_count(opcode) THEN StackUnderflow
    ELSE IF is_push(opcode) /\ Stack_size(ctx.stack) >= ctx.stack.max_size THEN StackOverflow
    ELSE NoError

\* BigUint::bits: the number of bits of the value, 0 for zero.
RECURSIVE bits(_)
bits(v) == IF v = 0 THEN 0 ELSE 1 + bits(v \div 2)

\* calculate_gas_cost charging nothing for any opcode.
calculate_gas_cost_unmetered(ctx, opcode) == 0

\* Executor::calculate_gas_cost
calculate_gas_cost(ctx, opcode) ==
    LET costs == GasCosts IN
    CASE opcode = Op.Add -> costs.add
      [] opcode = Op.Mul -> costs.mul
      [] opcode = Op.Sub -> costs.sub
      [] opcode = Op.Div -> costs.div
      [] opcode = Op.Mod -> costs.mod_
      [] opcode = Op.Sdiv -> costs.sdiv
      [] opcode = Op.Smod -> costs.smod
      [] opcode = Op.Addmod -> costs.addmod
      [] opcode = Op.Mulmod -> costs.mulmod
      [] opcode = Op.Signextend -> costs.signextend
      [] opcode = Op.Exp ->
            LET exponent == Stack_peek_at(ctx.stack, 0) IN
            IF IsOk(exponent) THEN costs.exp + bits(exponent.value) * 10 ELSE costs.exp
      [] opcode = Op.Lt -> costs.lt
      [] opcode = Op.Gt -> costs.gt
      [] opcode = Op.Slt -> costs.slt
      [] opcode = Op.Sgt -> costs.sgt
      [] opcode = Op.Eq -> costs.eq
      [] opcode = Op.Iszero -> costs.iszero
      [] opcode = Op.And -> costs.and
      [] opcode = Op.Or -> costs.or
      [] opcode = Op.Xor -> costs.xor
      [] opcode = Op.Not -> costs.not
      [] opcode = Op.Byte -> costs.byte
      [] opcode = Op.Shl -> costs.shl
      [] opcode = Op.Shr -> costs.shr
      [] opcode = Op.Sha3 ->
            LET size == Stack_peek_at(ctx.stack, 0) IN
            IF IsOk(size)
            THEN costs.keccak256 + ((to_u64(size.value) + 31) \div 32) * costs.keccak256_word
            ELSE costs.keccak256
      [] opcode = Op.Pop -> costs.pop
      [] is_dup(opcode) -> costs.dup
      [] is_swap(opcode) -> costs.swap
      [] opcode = Op.Mload -> costs.mload
      [] opcode = Op.Mstore -> costs.mstore
      [] opcode = Op.Mstore8 -> costs.mstore8
      [] opcode = Op.Msize -> costs.msize
      [] opcode = Op.Sload -> costs.sload
      [] opcode = Op.Sstore ->
            LET key == Stack_peek_at(ctx.stack, 0)
                value == Stack_peek_at(ctx.stack, 1)
            IN IF IsOk(key) /\ IsOk(value)
               THEN LET current_value ==
                            Storage_get_storage(ctx.storage, ctx.address, key.value)
                    IN IF current_value = value.value
                       THEN (IF current_value = 0 THEN costs.sstore_clear
                             ELSE costs.sstore_reset)
                       ELSE (IF current_value = 0 THEN costs.sstore_set
                             ELSE IF value.value = 0 THEN costs.sstore_clear
                             ELSE costs.sstore_reset)
               ELSE costs.sstore
      [] opcode = Op.Address -> costs.address
      [] opcode = Op.Caller -> costs.caller
      [] opcode = Op.Callvalue -> costs.callvalue
      [] opcode = Op.Calldatasize -> costs.calldatasize
      [] opcode = Op.Calldataload -> costs.calldataload
      [] opcode = Op.Codesize -> costs.codesize
      [] opcode = Op.Codecopy -> costs.codecopy
      [] opcode = Op.Balance -> costs.balance
      [] opcode = Op.Blockhash -> costs.blockhash
      [] opcode = Op.Coinbase -> costs.coinbase
      [] opcode = Op.Timestamp -> costs.timestamp
      [] opcode = Op.Number -> costs.number
      [] opcode = Op.Difficulty -> costs.difficulty
      [] opcode = Op.Gaslimit -> costs.gaslimit
      [] opcode = Op.Chainid -> costs.chainid
      [] opcode = Op.Selfbalance -> costs.selfbalance
      [] opcode = Op.Gasprice -> costs.gasprice
      [] opcode = Op.Origin -> costs.origin
      [] opcode = Op.Jump -> costs.jump
      [] opcode = Op.Jumpi -> costs.jumpi
      [] opcode = Op.Pc -> costs.pc
      [] opcode = Op.Jumpdest -> costs.jumpdest
      [] opcode = Op.Log0 -> costs.log0
      [] opcode = Op.Log1 -> costs.log1
      [] opcode = Op.Log2 -> costs.log2
      [] opcode = Op.Log3 -> costs.log3
      [] opcode = Op.Log4 -> costs.log4
      [] opcode = Op.Return -> costs.return_
      [] opcode = Op.Revert -> costs.revert
      [] OTHER -> costs.base

(***************************************************************************)
(* Executor (executor/mod.rs).  A step returns the context as the call     *)
(* left it beside the error, since `?` returns after earlier mutations.    *)
(***************************************************************************)
R(ctx, err) == [ctx |-> ctx, err |-> err]

\* n times `self.context.stack.pop()?`, then the rest of the arm.
WithPops(ctx, n, K(_, _)) ==
    Bind(PopN(ctx.stack, n), LAMBDA p:
        Bind([ctx EXCEPT !.stack = p.stack], LAMBDA c:
            IF ~IsOk(p) THEN R(c, p.err) ELSE K(c, p.values)))

\* `self.context.stack.push(value)?` as the last statement of an arm.
PushValue(ctx, value) ==
    LET q == Stack_push(ctx.stack, value) IN R([ctx EXCEPT !.stack = q.stack], q.err)

\* "Calculate memory expansion cost" and `consume(expansion_cost)?`, then the
\* rest of the arm.
ChargeExpansion(ctx, new_size, K(_)) ==
    LET expansion_cost == memory_expansion_cost(Memory_size(ctx.memory), new_size)
        g == GasMeter_consume(ctx.gas_meter, expansion_cost)
    IN IF ~IsOk(g) THEN R(ctx, g.err)
       ELSE Bind([ctx EXCEPT !.gas_meter = g.meter], LAMBDA c: K(c))

\* Executor::execute_push
execute_push(ctx0, opcode) ==
    LET g == GasMeter_consume(ctx0.gas_meter, GasCosts.push) IN
    IF ~IsOk(g) THEN R(ctx0, g.err)
    ELSE LET push_size == get_push_size(opcode)
             ctx == advance_pc([ctx0 EXCEPT !.gas_meter = g.meter], 1)
         IN IF ctx.pc + push_size > Len(ctx.code)
            THEN R(ctx, InvalidInstruction("Push data extends beyond code"))
            ELSE LET value == from_bytes_be(
                                 Zeros(32 - push_size)
                                    \o SubSeq(ctx.code, ctx.pc + 1, ctx.pc + push_size))
                     q == Stack_push(ctx.stack, value)
                 IN IF ~IsOk(q) THEN R(ctx, q.err)
                    ELSE R(advance_pc([ctx EXCEPT !.stack = q.stack], push_size), NoError)

\* The Address made of the last 20 bytes of a word (the arm Balance).
AddressOf(word) == from_bytes_be(SubSeq(to_bytes_be(word), 13, 32))

\* BlockContext::get_block_hash on BlockContext::new(): number is 1 and
\* block_hash is zero.
get_block_hash(block_number) ==
    IF block_number = 1 THEN 0 ELSE from_bytes_be(to_bytes_be(block_number))

(***************************************************************************)
(* The signed arms of execute_opcode, on operands given as the 32 bytes of *)
(* Uint256::to_bytes_be.  An i128 is held as an integer; the words the     *)
(* arms are applied to keep it away from i128::MIN.                        *)
(***************************************************************************)
\* Uint256::zero and Uint256::one
ZeroWord == Zeros(32)

OneWord == Zeros(31) \o <<1>>

\* The two's complement of a byte string: every byte inverted, plus one.
\* carry[k] is the carry into the k-th byte from the right.
Negated(bytes) ==
    LET n == Len(bytes)
        carry[k \in 1..(n + 1)] ==
            IF k = 1 THEN 1
            ELSE IF carry[k - 1] = 1 /\ bytes[n - k + 2] = 0 THEN 1 ELSE 0
    IN [i \in 1..n |-> (255 - bytes[i] + carry[n - i + 1]) % 256]

\* Executor::uint256_to_signed: the last 16 bytes shifted into an i128.
uint256_to_signed(word) ==
    LET low == SubSeq(word, 17, 32) IN
    IF low[1] >= 128 THEN 0 - from_bytes_be(Negated(low)) ELSE from_bytes_be(low)

\* i128::to_be_bytes
i128_to_be_bytes(value) ==
    LET digits == BigBytes(IF value < 0 THEN 0 - value ELSE value)
        padded == Zeros(16 - Len(digits)) \o digits
    IN IF value < 0 THEN Negated(padded) ELSE padded

\* Executor::signed_to_uint256: the i128 in the last 16 bytes of the word.
signed_to_uint256(value) == Zeros(16) \o i128_to_be_bytes(value)

\* `/` and `%` of i128: the quotient truncated towards zero and the
\* remainder with the sign of the dividend, for a divisor that is not zero.
Magnitude(value) == IF value < 0 THEN 0 - value ELSE value

i128_div(a, b) ==
    LET q == Magnitude(a) \div Magnitude(b) IN
    IF (a < 0) # (b < 0) THEN 0 - q ELSE q

i128_rem(a, b) == a - b * i128_div(a, b)

\* What an arm leaves: the word it pushed, or the panic that unwound it.
Pushed(word) == [kind |-> "Pushed", word |-> word]

Panicked(message) == [kind |-> "Panic", message |-> message]

\* The arms Sdiv and Smod after their two pops (a was on top).
ExecSdiv(a, b) ==
    IF b = ZeroWord THEN Pushed(ZeroWord)
    ELSE LET a_signed == uint256_to_signed(a)
             b_signed == uint256_to_signed(b)
         IN IF b_signed = 0 THEN Panicked("attempt to divide by zero")
            ELSE Pushed(signed_to_uint256(i128_div(a_signed, b_signed)))

ExecSmod(a, b) ==
    IF b = ZeroWord THEN Pushed(ZeroWord)
    ELSE LET a_signed == uint256_to_signed(a)
             b_signed == uint256_to_signed(b)
         IN IF b_signed = 0
            THEN Panicked("attempt to calculate the remainder with a divisor of zero")
            ELSE Pushed(signed_to_uint256(i128_rem(a_signed, b_signed)))

\* `<` of Uint256: the order of the values, which on 32 big-endian bytes is
\* the order of the first byte that differs.
Uint256_lt(a, b) ==
    \E i \in 1..32 : a[i] < b[i] /\ \A j \in 1..(i - 1) : a[j] = b[j]

\* The arms Slt and Sgt after their two pops (a was on top).
ExecSlt(a, b) == Pushed(IF Uint256_lt(a, b) THEN OneWord ELSE ZeroWord)

ExecSgt(a, b) == Pushed(IF Uint256_lt(b, a) THEN OneWord ELSE ZeroWord)

\* The arm Exp: square and multiply on BigUint, whose products are not
\* reduced.  at[k] is (result, base_val, exp) after k iterations of the loop;
\* the square the code takes in its last iteration is never read and is
\* left out.
ExpResult(base, exponent) ==
    IF exponent = 0 THEN 1
    ELSE IF base = 0 THEN 0
    ELSE LET at[k \in 0..bits(exponent)] ==
                 IF k = 0 THEN [result |-> 1, base_val |-> base, exp |-> exponent]
                 ELSE [result |-> IF at[k - 1].exp % 2 = 1
                                  THEN at[k - 1].result * at[k - 1].base_val
                                  ELSE at[k - 1].result,
                       base_val |-> IF at[k - 1].exp \div 2 = 0
                                    THEN at[k - 1].base_val
                                    ELSE at[k - 1].base_val * at[k - 1].base_val,
                       exp |-> at[k - 1].exp \div 2]
         IN at[bits(exponent)].result

\* Keccak256::digest read as a word.  The digest itself is outside what
\* the model computes: a stand-in that depends on every byte and on the
\* length of the data.
Keccak256_digest(data) ==
    LET acc[k \in 0..Len(data)] ==
            IF k = 0 THEN 7 ELSE (acc[k - 1] * 31 + data[k] + 1) % 65521
    IN 65536 + acc[Len(data)]

\* The recognized opcodes that reach the last arm of execute_opcode's match.
Unimplemented ==
    {Op.Sar, Op.Calldatacopy, Op.Extcodesize, Op.Extcodecopy, Op.Returndatasize,
     Op.Returndatacopy, Op.Extcodehash, Op.Create, Op.Call, Op.Callcode,
     Op.Delegatecall, Op.Create2, Op.Staticcall, Op.Selfdestruct}

\* The arms Log0..Log4 of execute_opcode: the topics are popped first, the
\* last topic from the top; then offset and size.
ExecLog(ctx, n) ==
    WithPops(ctx, n + 2, LAMBDA c, v:
        LET offset_usize == to_u64(v[n + 1])
            size_usize == to_u64(v[n + 2])
            topics == [i \in 1..n |-> to_bytes_be(v[n + 1 - i])]
        IN ChargeExpansion(c, offset_usize + size_usize, LAMBDA c2:
              R([c2 EXCEPT !.logs = EventLogger_log(@, c2.address, topics,
                                       read_bytes(c2.memory, offset_usize, size_usize))],
                NoError)))

\* The arms Return and Revert reading size before offset.
ExecReturn_swapped(ctx, success) ==
    WithPops(ctx, 2, LAMBDA c, v:
        R(halt([c EXCEPT !.return_data = read_bytes(c.memory, to_u64(v[2]), to_u64(v[1]))],
               success),
          NoError))

\* The arms Return and Revert of execute_opcode.
ExecReturn(ctx, success) ==
    WithPops(ctx, 2, LAMBDA c, v:
        R(halt([c EXCEPT !.return_data = read_bytes(c.memory, to_u64(v[1]), to_u64(v[2]))],
               success),
          NoError))

\* The arms Jump and Jumpi of execute_opcode.
ExecJump(ctx) ==
    WithPops(ctx, 1, LAMBDA c, v: set_pc(c, to_u64(v[1])))

ExecJumpi(ctx) ==
    WithPops(ctx, 2, LAMBDA c, v:
        IF v[2] # 0 THEN set_pc(c, to_u64(v[1])) ELSE R(c, NoError))

\* The match of Executor::execute_opcode, after the gas was consumed and pc
\* advanced.
Dispatch(ctx, opcode) ==
    CASE opcode = Op.Stop -> R(halt(ctx, TRUE), NoError)
      [] opcode = Op.Add -> WithPops(ctx, 2, LAMBDA c, v: PushValue(c, v[1] + v[2]))
      [] opcode = Op.Mul -> WithPops(ctx, 2, LAMBDA c, v: PushValue(c, v[1] * v[2]))
      [] opcode = Op.Sub ->
            \* BigUint's Sub panics when the right operand is the larger
            WithPops(ctx, 2, LAMBDA c, v:
                IF v[1] < v[2] THEN R(c, Panic("subtract with overflow"))
                ELSE PushValue(c, v[1] - v[2]))
      [] opcode = Op.Div ->
            WithPops(ctx, 2, LAMBDA c, v:
                PushValue(c, IF v[2] = 0 THEN 0 ELSE v[1] \div v[2]))
      [] opcode = Op.Mod ->
            WithPops(ctx, 2, LAMBDA c, v:
                PushValue(c, IF v[2] = 0 THEN 0 ELSE v[1] % v[2]))
      [] opcode = Op.Lt ->
            WithPops(ctx, 2, LAMBDA c, v: PushValue(c, IF v[1] < v[2] THEN 1 ELSE 0))
      [] opcode = Op.Gt ->
            WithPops(ctx, 2, LAMBDA c, v: PushValue(c, IF v[1] > v[2] THEN 1 ELSE 0))
      [] opcode = Op.Eq ->
            WithPops(ctx, 2, LAMBDA c, v: PushValue(c, IF v[1] = v[2] THEN 1 ELSE 0))
      [] opcode = Op.Iszero ->
            WithPops(ctx, 1, LAMBDA c, v: PushValue(c, IF v[1] = 0 THEN 1 ELSE 0))
      [] opcode = Op.Pop -> WithPops(ctx, 1, LAMBDA c, v: R(c, NoError))
      [] is_dup(opcode) ->
            LET d == Stack_dup(ctx.stack, dup_depth(opcode))
            IN R([ctx EXCEPT !.stack = d.stack], d.err)
      [] is_swap(opcode) ->
            LET d == Stack_swap(ctx.stack, swap_depth(opcode))
            IN R([ctx EXCEPT !.stack = d.stack], d.err)
      [] opcode = Op.Mload ->
            WithPops(ctx, 1, LAMBDA c, v:
                ChargeExpansion(c, to_u64(v[1]) + 32, LAMBDA c2:
                    PushValue(c2, read_word(c2.memory, to_u64(v[1])))))
      [] opcode = Op.Mstore ->
            WithPops(ctx, 2, LAMBDA c, v:
                ChargeExpansion(c, to_u64(v[1]) + 32, LAMBDA c2:
                    R([c2 EXCEPT !.memory = write_word(@, to_u64(v[1]), v[2])], NoError)))
      [] opcode = Op.Mstore8 ->
            WithPops(ctx, 2, LAMBDA c, v:
                ChargeExpansion(c, to_u64(v[1]) + 1, LAMBDA c2:
                    R([c2 EXCEPT !.memory = write_byte(@, to_u64(v[1]), to_u8(v[2]))],
                      NoError)))
      [] opcode = Op.Msize -> PushValue(ctx, Memory_size(ctx.memory))
      [] opcode = Op.Sload ->
            WithPops(ctx, 1, LAMBDA c, v:
                PushValue(c, Storage_get_storage(c.storage, c.address, v[1])))
      [] opcode = Op.Sstore ->
            WithPops(ctx, 2, LAMBDA c, v:
                R([c EXCEPT !.storage = Storage_set_storage(@, c.address, v[1], v[2])],
                  NoError))
      [] opcode = Op.Address -> PushValue(ctx, ctx.address)
      [] opcode = Op.Caller -> PushValue(ctx, ctx.caller)
      [] opcode = Op.Callvalue -> PushValue(ctx, ctx.call_value)
      [] opcode = Op.Calldatasize -> PushValue(ctx, Len(ctx.input_data))
      [] opcode = Op.Codesize -> PushValue(ctx, Len(ctx.code))
      [] opcode = Op.Selfbalance ->
            PushValue(ctx, Storage_get_balance(ctx.storage, ctx.address))
      [] opcode = Op.Jump -> ExecJump(ctx)
      [] opcode = Op.Jumpi -> ExecJumpi(ctx)
      [] opcode = Op.Pc -> PushValue(ctx, ctx.pc)
      [] opcode = Op.Jumpdest -> R(ctx, NoError)
      [] opcode = Op.Log0 -> ExecLog(ctx, 0)
      [] opcode = Op.Log1 -> ExecLog(ctx, 1)
      [] opcode = Op.Log2 -> ExecLog(ctx, 2)
      [] opcode = Op.Log3 -> ExecLog(ctx, 3)
      [] opcode = Op.Log4 -> ExecLog(ctx, 4)
      [] opcode = Op.Return -> ExecReturn(ctx, TRUE)
      [] opcode = Op.Revert -> ExecReturn(ctx, FALSE)
      [] opcode = Op.Exp ->
            WithPops(ctx, 2, LAMBDA c, v: PushValue(c, ExpResult(v[1], v[2])))
      [] opcode = Op.Codecopy ->
            WithPops(ctx, 3, LAMBDA c, v:
                ChargeExpansion(c, to_u64(v[1]) + to_u64(v[3]), LAMBDA c2:
                    IF to_u64(v[2]) < Len(c2.code)
                    THEN LET end == Min(to_u64(v[2]) + to_u64(v[3]), Len(c2.code))
                             data == SubSeq(c2.code, to_u64(v[2]) + 1, end)
                         IN R([c2 EXCEPT !.memory = write_bytes(@, to_u64(v[1]), data)],
                              NoError)
                    ELSE R(c2, NoError)))
      [] opcode = Op.Sha3 ->
            WithPops(ctx, 2, LAMBDA c, v:
                ChargeExpansion(c, to_u64(v[1]) + to_u64(v[2]), LAMBDA c2:
                    PushValue(c2, Keccak256_digest(
                                      read_bytes(c2.memory, to_u64(v[1]), to_u64(v[2]))))))
      [] opcode = Op.Addmod ->
            WithPops(ctx, 3, LAMBDA c, v:
                PushValue(c, IF v[3] = 0 THEN 0 ELSE (v[1] + v[2]) % v[3]))
      [] opcode = Op.Mulmod ->
            WithPops(ctx, 3, LAMBDA c, v:
                PushValue(c, IF v[3] = 0 THEN 0 ELSE (v[1] * v[2]) % v[3]))
      [] opcode = Op.Balance ->
            WithPops(ctx, 1, LAMBDA c, v:
                PushValue(c, Storage_get_balance(c.storage, AddressOf(v[1]))))
      [] opcode = Op.Blockhash ->
            WithPops(ctx, 1, LAMBDA c, v: PushValue(c, get_block_hash(v[1])))
      [] opcode \in Unimplemented -> R(ctx, InvalidInstruction("Unimplemented opcode"))

\* Executor::execute_opcode
execute_opcode(ctx0, opcode) ==
    LET gas_cost == calculate_gas_cost(ctx0, opcode)
        g == GasMeter_consume(ctx0.gas_meter, gas_cost)
    IN IF ~IsOk(g) THEN R(ctx0, g.err)
       ELSE Bind(advance_pc([ctx0 EXCEPT !.gas_meter = g.meter], 1),
                 LAMBDA ctx: Dispatch(ctx, opcode))

\* Executor::step
step(ctx) ==
    IF ctx.pc >= Len(ctx.code)
    THEN R(ctx, InvalidInstruction("Program counter out of bounds"))
    ELSE LET d == from_byte(ctx.code[ctx.pc + 1]) IN
         IF ~IsOk(d) THEN R(ctx, d.err)
         ELSE LET v == validate_stack_requirements(ctx, d.opcode) IN
              IF v.type # "None" THEN R(ctx, v)
              ELSE IF is_push(d.opcode) THEN execute_push(ctx, d.opcode)
              ELSE execute_opcode(ctx, d.opcode)

\* ExecutionResult with the meter's limit reported as the gas remaining.
ExecutionResult_limit(ctx) ==
    [kind |-> "Ok",
     success |-> ctx.success,
     return_data |-> ctx.return_data,
     gas_used |-> GasMeter_used(ctx.gas_meter),
     gas_remaining |-> ctx.gas_meter.limit,
     logs |-> ctx.logs]

\* The ExecutionResult built at the end of Executor::execute.
ExecutionResult(ctx) ==
    [kind |-> "Ok",
     success |-> ctx.success,
     return_data |-> ctx.return_data,
     gas_used |-> GasMeter_used(ctx.gas_meter),
     gas_remaining |-> ctx.gas_meter.available,
     logs |-> ctx.logs]

(***************************************************************************)
(* State.                                                                  *)
(***************************************************************************)
VARIABLES
    context,      \* Executor.context, the ExecutionContext of the frame
    outcome,      \* what Executor::execute returned: Running until it returns
    gas_limit,    \* the gas_limit argument of ExecutionContext::new
    meter,        \* a GasMeter driven directly by consume and refund
    meter_last,   \* the last call made on meter, with the meter before it
    refund_base,  \* GasMeter::used before the first refund of the current run of refunds
    refund_total, \* gas added back by the current run of refunds
    stk,          \* a Stack driven directly by its methods
    stk_last,     \* the last call made on stk, with the stack before it
    run_base,     \* stk.items when the current run of pushes began
    run_pushes,   \* successful pushes of the current run
    run_pops,     \* successful pops that followed them
    world,        \* Storage.accounts of a Storage driven directly by its methods
    world_last,   \* the last call made on world, with the map before it
    world_calls,  \* the number of mutating calls made on world
    mem,          \* Memory.data of a Memory driven directly by its methods
    mem_last,     \* the last call made on mem, with the data before it
    candidate,    \* a Validator and the code handed to its validate_bytecode
    verdict,      \* what validate_bytecode returned: Running until it returns
    operands,     \* a signed opcode and the two words its arm pops
    word_result,  \* what the arm pushed or how it failed: Running until it has run
    bytecode,     \* the code handed to GasOptimization::optimize
    optimized     \* what optimize returned: Running until it returns

execVars == <<context, outcome, gas_limit>>

meterVars == <<meter, meter_last, refund_base, refund_total>>

stackVars == <<stk, stk_last, run_base, run_pushes, run_pops>>

storageVars == <<world, world_last, world_calls>>

memoryVars == <<mem, mem_last>>

validatorVars == <<candidate, verdict>>

signedVars == <<operands, word_result>>

optimizerVars == <<bytecode, optimized>>

vars == <<context, outcome, gas_limit, meter, meter_last, refund_base, refund_total,
          stk, stk_last, run_base, run_pushes, run_pops,
          world, world_last, world_calls, mem, mem_last, candidate, verdict,
          operands, word_result, bytecode, optimized>>

(***************************************************************************)
(* The programs and gas limits the executor is run on.                     *)
(***************************************************************************)
\* Gas limit of the executor's tests and of the spec's scenarios.
TestGasLimit == 1000

\* PUSH1 0, PUSH1 1, JUMP, JUMPI, JUMPDEST, STOP
InstrSet == {<<96, 0>>, <<96, 1>>, <<86>>, <<87>>, <<91>>, <<0>>}

\* The codes made of at most n instructions of InstrSet.
RECURSIVE Assembled(_)
Assembled(n) ==
    IF n = 0 THEN {<<>>}
    ELSE LET shorter == Assembled(n - 1) IN
         shorter \cup {c \o i : c \in shorter, i \in InstrSet}

Programs ==
    { <<96, 2, 96, 3, 1, 0>>,                  \* PUSH1 2, PUSH1 3, ADD, STOP
      <<96, 1, 96, 2, 128, 1, 0>>,             \* PUSH1 1, PUSH1 2, DUP1, ADD, STOP
      <<96, 0, 96, 66, 83, 96, 0, 81, 0>>,     \* PUSH1 0, PUSH1 0x42, MSTORE8, PUSH1 0, MLOAD, STOP
      <<96, 5, 86, 0>>,                        \* PUSH1 5, JUMP, STOP
      <<96, 4, 86, 0, 91, 0>>,                 \* PUSH1 4, JUMP, STOP, JUMPDEST, STOP
      <<96, 32, 96, 0, 82, 96, 32, 96, 0, 160, 0>>,
                                               \* PUSH1 32, PUSH1 0, MSTORE, PUSH1 32, PUSH1 0, LOG0, STOP
      <<96, 91, 96, 1, 86>>,                   \* PUSH1 0x5B, PUSH1 1, JUMP
      <<96, 4, 86, 0, 1>>,                     \* PUSH1 4, JUMP, STOP, ADD
      <<96, 1, 96, 91, 87, 0>>,                \* PUSH1 1, PUSH1 0x5B, JUMPI, STOP
      <<96, 7, 96, 0, 83, 96, 2, 96, 0, 243>>, \* PUSH1 7, PUSH1 0, MSTORE8, PUSH1 2, PUSH1 0, RETURN
      <<96, 7, 96, 0, 83, 96, 2, 96, 0, 253>>, \* PUSH1 7, PUSH1 0, MSTORE8, PUSH1 2, PUSH1 0, REVERT
      <<96, 0, 96, 0, 243, 0>>,                \* PUSH1 0, PUSH1 0, RETURN, STOP
      <<96, 1, 96, 0, 160, 12>>,               \* PUSH1 1, PUSH1 0, LOG0, (invalid 0x0c)
      <<96, 1, 96, 0, 160, 86>>,               \* PUSH1 1, PUSH1 0, LOG0, JUMP
      <<96, 1, 96, 0, 160, 96, 9, 86>>,        \* PUSH1 1, PUSH1 0, LOG0, PUSH1 9, JUMP
      <<96, 3, 96, 1, 96, 0, 161, 253>>,       \* PUSH1 3, PUSH1 1, PUSH1 0, LOG1, REVERT
      <<96, 1, 61>>,                           \* PUSH1 1, RETURNDATASIZE
      <<128>>,                                 \* DUP1
      <<96, 1, 144, 80, 80>>,                  \* PUSH1 1, SWAP1, POP, POP
      <<96, 2, 91, 128, 86>>,                  \* PUSH1 2, JUMPDEST, DUP1, JUMP
      <<91, 96>> }                             \* JUMPDEST, PUSH1 (no immediate)

\* Programs on the wide pushes, the deeper DUPs and SWAPs, and the opcodes
\* whose arms pop more than Opcode::pop_count declares.
OpcodePrograms ==
    { <<97, 1, 2, 0>>,                         \* PUSH2 0x0102, STOP
      <<96, 1, 96, 2, 144, 0>>,                \* PUSH1 1, PUSH1 2, SWAP1, STOP
      <<96, 1, 96, 2, 129, 0>>,                \* PUSH1 1, PUSH1 2, DUP2, STOP
      <<96, 5, 96, 3, 96, 4, 8, 0>>,           \* PUSH1 5, PUSH1 3, PUSH1 4, ADDMOD, STOP
      <<96, 5, 96, 3, 96, 4, 9, 0>>,           \* PUSH1 5, PUSH1 3, PUSH1 4, MULMOD, STOP
      <<96, 3, 96, 4, 8>>,                     \* PUSH1 3, PUSH1 4, ADDMOD
      <<96, 1, 49, 0>>,                        \* PUSH1 1, BALANCE, STOP
      <<49>>,                                  \* BALANCE
      <<96, 2, 64, 0>>,                        \* PUSH1 2, BLOCKHASH, STOP
      <<96, 0, 84, 0>>,                        \* PUSH1 0, SLOAD, STOP
      <<71, 0>>,                               \* SELFBALANCE, STOP
      <<12>>,                                  \* (invalid 0x0c)
      <<96, 1, 254>> }                         \* PUSH1 1, (invalid 0xfe)

\* One program per byte that Opcode::from_byte rejects.
InvalidPrograms ==
    {<<byte>> : byte \in {b \in 0..255 : ~IsOk(from_byte(b))}}

\* PUSH1 b, PUSH1 a, then ADD, MUL or SUB (a is on top), STOP.
ArithmeticPrograms ==
    {<<96, b, 96, a, op, 0>> : a \in 0..2, b \in 0..2, op \in {1, 2, 3}}

\* Programs whose MLOAD or MSTORE has to pay for one word of memory and is
\* followed by a STOP.
ExpansionPrograms ==
    { <<96, 0, 81, 0>>,                        \* PUSH1 0, MLOAD, STOP
      <<96, 1, 96, 0, 82, 0>> }                \* PUSH1 1, PUSH1 0, MSTORE, STOP

\* PUSH1 size, PUSH1 offset, KECCAK256, STOP.
Sha3Programs ==
    {<<96, size, 96, offset, 32, 0>> : size \in {0, 1, 33}, offset \in {0, 1, 33}}

\* PUSH1 exponent, PUSH1 base, EXP, STOP, and the two-byte exponent 256 on
\* the base 1.
ExpPrograms ==
    {<<96, exponent, 96, base, 10, 0>> : exponent \in {0, 1, 3}, base \in {0, 2, 3}}
        \cup {<<97, 1, 0, 96, 1, 10, 0>>}

\* PUSH1 7, PUSH1 0, MSTORE8, then PUSH1 size, PUSH1 src, PUSH1 dst,
\* CODECOPY, STOP: 13 bytes of code, read from its start, across its end
\* and past it.
CodecopyPrograms ==
    {<<96, 7, 96, 0, 83, 96, size, 96, src, 96, dst, 57, 0>> :
        size \in {0, 2}, src \in {0, 12, 20}, dst \in {0, 1}}

Codes ==
    Programs \cup OpcodePrograms \cup InvalidPrograms \cup ArithmeticPrograms
        \cup ExpansionPrograms \cup Sha3Programs \cup ExpPrograms
        \cup CodecopyPrograms \cup Assembled(MaxInstrs)

GasLimits == (0..MaxGas) \cup {TestGasLimit}

(***************************************************************************)
(* The executor: Executor::execute, one action per iteration of its loop   *)
(* and one for its return.                                                 *)
(***************************************************************************)
Running == [kind |-> "Running"]

\* Default of the command line's --gas-limit: enough for two SSTOREs.
CliGasLimit == 1000000

\* PUSH1 v, PUSH1 0, SSTORE, PUSH1 w, PUSH1 0, SSTORE, STOP: every
\* transition of slot 0 between zero, a value and another value.
StoragePrograms ==
    {<<96, v, 96, 0, 85, 96, w, 96, 0, 85, 0>> : v \in 0..2, w \in 0..2}

\* PUSH1 7, PUSH1 0, MSTORE8, PUSH1 2 (size), PUSH1 0 (offset), then n
\* pushes of the values 11, 12, .. and LOGn.
LogProgram(n) ==
    <<96, 7, 96, 0, 83, 96, 2, 96, 0>>
        \o [i \in 1..(2 * n) |-> IF i % 2 = 1 THEN 96 ELSE 10 + i \div 2]
        \o <<160 + n>>

\* One program per LOG opcode, and one that logs twice: LOG0 and then
\* PUSH1 1 (size), PUSH1 1 (offset), PUSH1 9, LOG1, STOP.
LogPrograms ==
    {LogProgram(n) : n \in 0..4}
        \cup {LogProgram(0) \o <<96, 1, 96, 1, 96, 9, 161, 0>>}

InitExec ==
    /\ \E code \in Codes \cup StoragePrograms \cup LogPrograms :
          /\ gas_limit \in GasLimits
                  \cup (IF code \in StoragePrograms \cup LogPrograms
                        THEN {CliGasLimit} ELSE {})
          /\ context = ExecutionContext_new(1, 2, 0, <<>>, code, gas_limit)
    /\ outcome = Running

\* The loop condition of Executor::execute.
LoopCondition(ctx) == ctx.should_continue /\ ctx.pc < Len(ctx.code)

\* An iteration whose step returns Ok.
ExecuteStep ==
    /\ outcome = Running
    /\ LoopCondition(context)
    /\ LET r == step(context) IN
          /\ IsOk(r)
          /\ context' = r.ctx
    /\ UNCHANGED <<outcome, gas_limit, meterVars, stackVars, storageVars, memoryVars, validatorVars, signedVars, optimizerVars>>

\* An iteration whose step returns Err: `?` returns it from execute.
ExecuteTrap ==
    /\ outcome = Running
    /\ LoopCondition(context)
    /\ LET r == step(context) IN
          /\ ~IsOk(r)
          /\ r.err.type # "Panic"
          /\ context' = r.ctx
          /\ outcome' = [kind |-> "Err", error |-> r.err]
    /\ UNCHANGED <<gas_limit, meterVars, stackVars, storageVars, memoryVars, validatorVars, signedVars, optimizerVars>>

\* An iteration whose step panics: execute unwinds and returns nothing.
ExecutePanic ==
    /\ outcome = Running
    /\ LoopCondition(context)
    /\ LET r == step(context) IN
          /\ r.err.type = "Panic"
          /\ context' = r.ctx
          /\ outcome' = [kind |-> "Panic", message |-> r.err.message]
    /\ UNCHANGED <<gas_limit, meterVars, stackVars, storageVars, memoryVars, validatorVars, signedVars, optimizerVars>>

\* The loop has ended: execute returns Ok(ExecutionResult).
ExecuteReturn ==
    /\ outcome = Running
    /\ ~LoopCondition(context)
    /\ LET ctx == IF context.should_continue /\ context.pc >= Len(context.code)
                  THEN [context EXCEPT !.success = TRUE]
                  ELSE context
       IN /\ context' = ctx
          /\ outcome' = ExecutionResult(ctx)
    /\ UNCHANGED <<gas_limit, meterVars, stackVars, storageVars, memoryVars, validatorVars, signedVars, optimizerVars>>

(***************************************************************************)
(* A GasMeter driven directly: any sequence of consume and refund calls.   *)
(***************************************************************************)
NoCall == [op |-> "none"]

InitMeter ==
    /\ \E limit \in 0..MaxMeterLimit : meter = GasMeter_new(limit)
    /\ meter_last = NoCall
    /\ refund_base = -1
    /\ refund_total = 0

Amounts == 0..(MaxMeterLimit + 1)

\* meter.consume(amount); a successful consume ends the run of refunds.
Consume ==
    \E amount \in Amounts :
        LET r == GasMeter_consume(meter, amount) IN
        /\ meter' = r.meter
        /\ meter_last' = [op |-> "consume", amount |-> amount, before |-> meter,
                          err |-> r.err]
        /\ IF IsOk(r)
           THEN refund_base' = -1 /\ refund_total' = 0
           ELSE UNCHANGED <<refund_base, refund_total>>
        /\ UNCHANGED <<execVars, stackVars, storageVars, memoryVars, validatorVars, signedVars, optimizerVars>>

\* meter.refund(amount)
Refund ==
    \E amount \in Amounts :
        LET after == GasMeter_refund(meter, amount) IN
        /\ meter' = after
        /\ meter_last' = [op |-> "refund", amount |-> amount, before |-> meter,
                          err |-> NoError]
        /\ refund_base' = IF refund_base = -1 THEN GasMeter_used(meter) ELSE refund_base
        /\ refund_total' = refund_total + (after.available - meter.available)
        /\ UNCHANGED <<execVars, stackVars, storageVars, memoryVars, validatorVars, signedVars, optimizerVars>>

(***************************************************************************)
(* A Stack driven directly: any sequence of its methods.                   *)
(***************************************************************************)
StackValues == {0, 1}

Depths == 0..MaxStack

InitStack ==
    /\ \E max_size \in 0..MaxStack : stk = Stack_with_max_size(max_size)
    /\ stk_last = NoCall
    /\ run_base = <<>>
    /\ run_pushes = 0
    /\ run_pops = 0

\* The run starts over at the stack the call left.
RunRestart == run_base' = stk'.items /\ run_pushes' = 0 /\ run_pops' = 0

\* stk.push(value): a push after the pops of a run begins a new run.
Push ==
    \E value \in StackValues :
        LET r == Stack_push(stk, value) IN
        /\ stk' = r.stack
        /\ stk_last' = [op |-> "push", depth |-> 0, before |-> stk, err |-> r.err]
        /\ IF ~IsOk(r) THEN UNCHANGED <<run_base, run_pushes, run_pops>>
           ELSE IF run_pops = 0
           THEN run_pushes' = run_pushes + 1 /\ UNCHANGED <<run_base, run_pops>>
           ELSE run_base' = stk.items /\ run_pushes' = 1 /\ run_pops' = 0
        /\ UNCHANGED <<execVars, meterVars, storageVars, memoryVars, validatorVars, signedVars, optimizerVars>>

\* stk.pop(): a pop beyond the pushes of the run begins a new run.
Pop ==
    LET r == Stack_pop(stk) IN
    /\ stk' = r.stack
    /\ stk_last' = [op |-> "pop", depth |-> 0, before |-> stk, err |-> r.err]
    /\ IF ~IsOk(r) THEN UNCHANGED <<run_base, run_pushes, run_pops>>
       ELSE IF run_pops < run_pushes
       THEN run_pops' = run_pops + 1 /\ UNCHANGED <<run_base, run_pushes>>
       ELSE RunRestart
    /\ UNCHANGED <<execVars, meterVars, storageVars, memoryVars, validatorVars, signedVars, optimizerVars>>

\* stk.peek()
Peek ==
    LET r == Stack_peek(stk) IN
    /\ stk_last' = [op |-> "peek", depth |-> 0, before |-> stk, err |-> r.err]
    /\ UNCHANGED <<stk, run_base, run_pushes, run_pops, execVars, meterVars, storageVars, memoryVars, validatorVars, signedVars, optimizerVars>>

\* stk.peek_at(depth)
PeekAt ==
    \E depth \in Depths :
        LET r == Stack_peek_at(stk, depth) IN
        /\ stk_last' = [op |-> "peek_at", depth |-> depth, before |-> stk, err |-> r.err]
        /\ UNCHANGED <<stk, run_base, run_pushes, run_pops, execVars, meterVars, storageVars, memoryVars, validatorVars, signedVars, optimizerVars>>

\* stk.dup(depth)
Dup ==
    \E depth \in Depths :
        LET r == Stack_dup(stk, depth) IN
        /\ stk' = r.stack
        /\ stk_last' = [op |-> "dup", depth |-> depth, before |-> stk, err |-> r.err]
        /\ IF IsOk(r) THEN RunRestart ELSE UNCHANGED <<run_base, run_pushes, run_pops>>
        /\ UNCHANGED <<execVars, meterVars, storageVars, memoryVars, validatorVars, signedVars, optimizerVars>>

\* stk.swap(depth)
Swap ==
    \E depth \in Depths :
        LET r == Stack_swap(stk, depth) IN
        /\ stk' = r.stack
        /\ stk_last' = [op |-> "swap", depth |-> depth, before |-> stk, err |-> r.err]
        /\ IF IsOk(r) THEN RunRestart ELSE UNCHANGED <<run_base, run_pushes, run_pops>>
        /\ UNCHANGED <<execVars, meterVars, storageVars, memoryVars, validatorVars, signedVars, optimizerVars>>

\* The iterations a run of the loop of Executor::execute is followed for.
MaxSteps == 8

\* The loop of Executor::execute from ctx: the context it ends on and the
\* error of the step that stopped it.
RECURSIVE RunFrom(_, _)
RunFrom(ctx, fuel) ==
    IF fuel = 0 THEN R(ctx, InvalidInstruction("fuel"))
    ELSE IF ~LoopCondition(ctx) THEN R(ctx, NoError)
    ELSE \* one iteration of the loop
         CHOOSE res \in {IF IsOk(r) THEN RunFrom(r.ctx, fuel - 1) ELSE r
                           : r \in {step(ctx)}} : TRUE

(***************************************************************************)
(* A Storage driven directly: any sequence of calls of its methods, and    *)
(* runs of the executor's reading opcodes on a frame that holds it.        *)
(***************************************************************************)
\* Mutating calls made on the Storage.
MaxCalls == 2

\* The callee 1 and the caller 2 of the frames, as account addresses.
Addresses == {1, 2}

StorageKeys == {0, 1}

StorageValues == {0, 1, 2}

InitStorage ==
    /\ world = Storage_new
    /\ world_last = NoCall
    /\ world_calls = 0

\* A call of a `&mut self` method: the map after it and what it returned.
Mutated(op, address, key, value, after, err) ==
    /\ world_calls < MaxCalls
    /\ world' = after
    /\ world_calls' = world_calls + 1
    /\ world_last' = [op |-> op, address |-> address, key |-> key, value |-> value,
                      before |-> world, result |-> err]
    /\ UNCHANGED <<execVars, meterVars, stackVars, memoryVars, validatorVars, signedVars, optimizerVars>>

\* A call of a `&self` method: what it returned.
Read(op, address, key, result) ==
    /\ world_last' = [op |-> op, address |-> address, key |-> key, value |-> 0,
                      before |-> world, result |-> result]
    /\ UNCHANGED <<world, world_calls, execVars, meterVars, stackVars, memoryVars, validatorVars, signedVars, optimizerVars>>

SetStorage ==
    \E address \in Addresses, key \in StorageKeys, value \in StorageValues :
        Mutated("set_storage", address, key, value,
                Storage_set_storage(world, address, key, value), NoError)

SetBalance ==
    \E address \in Addresses, balance \in StorageValues :
        Mutated("set_balance", address, 0, balance,
                Storage_set_balance(world, address, balance), NoError)

AddBalance ==
    \E address \in Addresses, amount \in StorageValues :
        Mutated("add_balance", address, 0, amount,
                Storage_add_balance(world, address, amount), NoError)

SubBalance ==
    \E address \in Addresses, amount \in StorageValues :
        LET r == Storage_sub_balance(world, address, amount) IN
        Mutated("sub_balance", address, 0, amount, r.accounts, r.err)

SetNonce ==
    \E address \in Addresses :
        Mutated("set_nonce", address, 0, 1, Storage_set_nonce(world, address, 1), NoError)

IncrementNonce ==
    \E address \in Addresses :
        Mutated("increment_nonce", address, 0, 0,
                Storage_increment_nonce(world, address), NoError)

SetCode ==
    \E address \in Addresses :
        Mutated("set_code", address, 0, <<0>>,
                Storage_set_code(world, address, <<0>>), NoError)

DeleteAccount ==
    \E address \in Addresses :
        Mutated("delete_account", address, 0, 0,
                Storage_delete_account(world, address), NoError)

GetStorage ==
    \E address \in Addresses, key \in StorageKeys :
        Read("get_storage", address, key, Storage_get_storage(world, address, key))

GetBalance ==
    \E address \in Addresses :
        Read("get_balance", address, 0, Storage_get_balance(world, address))

GetNonce ==
    \E address \in Addresses :
        Read("get_nonce", address, 0, Storage_get_nonce(world, address))

GetCode ==
    \E address \in Addresses :
        Read("get_code", address, 0, Storage_get_code(world, address))

\* PUSH1 key, SLOAD; PUSH1 address, BALANCE; SELFBALANCE
ReadingPrograms ==
    {<<96, key, 84>> : key \in StorageKeys}
        \cup {<<96, address, 49>> : address \in Addresses}
        \cup {<<71>>}

\* A run of a reading program in a frame of callee 1 whose storage is the
\* Storage: the storage of the frame after the run, and the stack it left.
RunReading ==
    \E code \in ReadingPrograms :
        LET frame == [ExecutionContext_new(1, 2, 0, <<>>, code, TestGasLimit)
                        EXCEPT !.storage = world]
            res == RunFrom(frame, MaxSteps)
        IN /\ world' = res.ctx.storage
           /\ world_last' = [op |-> "execute", address |-> 1, key |-> code[Len(code)],
                             value |-> IF Len(code) > 1 THEN code[2] ELSE 1,
                             before |-> world,
                             result |-> res.ctx.stack.items]
           /\ UNCHANGED <<world_calls, execVars, meterVars, stackVars, memoryVars, validatorVars, signedVars, optimizerVars>>

(***************************************************************************)
(* A Memory driven directly: any sequence of writes and reads.             *)
(***************************************************************************)
MaxOffset == 2

MaxSize == 3

MemoryBytes == {0, 7}

InitMemory ==
    /\ mem = Memory_new
    /\ mem_last = NoCall

WriteByte ==
    \E offset \in 0..MaxOffset, value \in MemoryBytes :
        /\ mem' = write_byte(mem, offset, value)
        /\ mem_last' = [op |-> "write_byte", offset |-> offset, size |-> 1,
                        before |-> mem, result |-> <<>>]
        /\ UNCHANGED <<execVars, meterVars, stackVars, storageVars, validatorVars, signedVars, optimizerVars>>

WriteBytes ==
    \E offset \in 0..MaxOffset, bytes \in {<<>>, <<7>>, <<7, 0>>} :
        /\ mem' = write_bytes(mem, offset, bytes)
        /\ mem_last' = [op |-> "write_bytes", offset |-> offset, size |-> Len(bytes),
                        before |-> mem, result |-> <<>>]
        /\ UNCHANGED <<execVars, meterVars, stackVars, storageVars, validatorVars, signedVars, optimizerVars>>

\* The memories that writes of the bytes of MemoryBytes leave, up to the
\* length the ranges of a copy reach.
CopyMemories == UNION {[1..n -> MemoryBytes] : n \in 0..(MaxOffset + MaxSize)}

InitCopy ==
    /\ mem \in CopyMemories
    /\ mem_last = NoCall

Copy ==
    \E dest_offset \in 0..MaxOffset, src_offset \in 0..MaxOffset, size \in 0..MaxSize :
        /\ mem' = copy(mem, dest_offset, src_offset, size)
        /\ mem_last' = [op |-> "copy", offset |-> dest_offset, src |-> src_offset,
                        size |-> size, before |-> mem, result |-> <<>>]
        /\ UNCHANGED <<execVars, meterVars, stackVars, storageVars, validatorVars, signedVars, optimizerVars>>

ReadBytes ==
    \E offset \in 0..(MaxOffset + 2), size \in 0..MaxSize :
        /\ mem_last' = [op |-> "read_bytes", offset |-> offset, size |-> size,
                        before |-> mem, result |-> read_bytes(mem, offset, size)]
        /\ UNCHANGED <<mem, execVars, meterVars, stackVars, storageVars, validatorVars, signedVars, optimizerVars>>

\* Sizes around the word boundary and around the sizes where the quadratic
\* term of the expansion cost steps up.
ExpansionSizes == {0, 1, 32, 33, 704, 736, 1024}

EnsureSize ==
    \E size \in ExpansionSizes :
        /\ mem' = ensure_size(mem, size)
        /\ mem_last' = [op |-> "ensure_size", offset |-> 0, size |-> size,
                        before |-> mem, result |-> <<>>]
        /\ UNCHANGED <<execVars, meterVars, stackVars, storageVars, validatorVars, signedVars, optimizerVars>>

\* Memory::expansion_cost(new_size) on the Memory, and
\* GasMeter::memory_expansion_cost(memory.size(), new_size) as the executor
\* calls it.
ExpansionCost ==
    \E new_size \in ExpansionSizes :
        /\ mem_last' = [op |-> "expansion_cost", offset |-> 0, size |-> new_size,
                        before |-> mem,
                        result |-> [memory |-> Memory_expansion_cost(mem, new_size),
                                    meter |-> memory_expansion_cost(Memory_size(mem), new_size)]]
        /\ UNCHANGED <<mem, execVars, meterVars, stackVars, storageVars, validatorVars, signedVars, optimizerVars>>

(***************************************************************************)
(* A Validator handed a code: one call of validate_bytecode.               *)
(***************************************************************************)
\* Length of the codes handed to the validator.
MaxCodeLen == 3

\* STOP, the invalid 0x0c, SSTORE, JUMP, JUMPDEST, PUSH1, PUSH2, SELFDESTRUCT
ValidatorBytes == {0, 12, 85, 86, 91, 96, 97, 255}

RECURSIVE CodesUpTo(_)
CodesUpTo(n) ==
    IF n = 0 THEN {<<>>}
    ELSE LET shorter == CodesUpTo(n - 1) IN
         shorter \cup {Append(c, b) : c \in shorter, b \in ValidatorBytes}

\* The codes of the validator's test, and five-byte codes with one jump.
ValidatorPrograms ==
    { <<96, 2, 96, 3, 1, 0>>, <<255, 0>>, <<96, 9, 86, 0, 0>>, <<96, 4, 86, 96, 96>>,
      <<96, 4, 86, 0, 91, 0>>, <<127, 0>>, <<97, 0, 12, 0>> }

\* The default validator and one whose code size cap is two bytes.
InitValidator ==
    /\ candidate \in [validator : {Validator_new, Validator_with_limits(2)},
                      code : CodesUpTo(MaxCodeLen) \cup ValidatorPrograms]
    /\ verdict = Running

ValidateBytecode ==
    /\ verdict = Running
    /\ verdict' = [kind |-> "Returned",
                   error |-> validate_bytecode(candidate.validator, candidate.code)]
    /\ UNCHANGED <<candidate, execVars, meterVars, stackVars, storageVars, memoryVars,
                   signedVars, optimizerVars>>

(***************************************************************************)
(* The signed arms applied to two words.                                   *)
(***************************************************************************)
\* The word of a small integer in two's complement over 256 bits.
Word256(value) ==
    LET digits == BigBytes(Magnitude(value))
        padded == Zeros(32 - Len(digits)) \o digits
    IN IF value < 0 THEN Negated(padded) ELSE padded

\* The most negative word, 0x80 00 .. 00.
MinI256 == <<128>> \o Zeros(31)

SmallIntegers == {0 - 7, 0 - 2, 0 - 1, 0, 1, 2, 7}

SignedWords == {Word256(k) : k \in SmallIntegers} \cup {MinI256}

InitSigned ==
    /\ operands \in [op : {"Sdiv", "Smod", "Slt", "Sgt"}, a : SignedWords, b : SignedWords]
    /\ word_result = Running

Sdiv ==
    /\ word_result = Running
    /\ operands.op = "Sdiv"
    /\ word_result' = ExecSdiv(operands.a, operands.b)
    /\ UNCHANGED <<operands, execVars, meterVars, stackVars, storageVars, memoryVars,
                   validatorVars, optimizerVars>>

Smod ==
    /\ word_result = Running
    /\ operands.op = "Smod"
    /\ word_result' = ExecSmod(operands.a, operands.b)
    /\ UNCHANGED <<operands, execVars, meterVars, stackVars, storageVars, memoryVars,
                   validatorVars, optimizerVars>>

Slt ==
    /\ word_result = Running
    /\ operands.op = "Slt"
    /\ word_result' = ExecSlt(operands.a, operands.b)
    /\ UNCHANGED <<operands, execVars, meterVars, stackVars, storageVars, memoryVars,
                   validatorVars, optimizerVars>>

Sgt ==
    /\ word_result = Running
    /\ operands.op = "Sgt"
    /\ word_result' = ExecSgt(operands.a, operands.b)
    /\ UNCHANGED <<operands, execVars, meterVars, stackVars, storageVars, memoryVars,
                   validatorVars, optimizerVars>>

(***************************************************************************)
(* GasOptimization::optimize called on a code.                             *)
(***************************************************************************)
\* The seven-byte pattern of the constant folding, the test's code, and
\* codes with PUSH1 0, DUP1.
OptimizerPrograms ==
    { <<96, 2, 96, 3, 1>>,                     \* PUSH1 2, PUSH1 3, ADD
      <<96, 1, 91, 96, 2, 91, 1, 0>>,          \* PUSH1 1, JUMPDEST, PUSH1 2, JUMPDEST, ADD, STOP
      <<96, 1, 80, 96, 2, 80, 1, 0>>,          \* PUSH1 1, POP, PUSH1 2, POP, ADD, STOP
      <<96, 0, 128, 1, 0>>,                    \* PUSH1 0, DUP1, ADD, STOP
      <<96, 0, 128, 80, 96, 8, 86, 0, 91, 0>> }
                                               \* PUSH1 0, DUP1, POP, PUSH1 8, JUMP, STOP, JUMPDEST, STOP

InitOptimizer ==
    /\ bytecode \in Codes \cup StoragePrograms \cup LogPrograms \cup OptimizerPrograms
    /\ optimized = Running

Optimize ==
    /\ optimized = Running
    /\ optimized' = [kind |-> "Returned", code |-> optimize(bytecode)]
    /\ UNCHANGED <<bytecode, execVars, meterVars, stackVars, storageVars, memoryVars,
                   validatorVars, signedVars>>

(***************************************************************************)
(* Specifications.                                                         *)
(***************************************************************************)
\* The objects a specification does not drive stay as constructed.
IdleExec == context = ExecutionContext_new(1, 2, 0, <<>>, <<>>, 0) /\ outcome = Running /\ gas_limit = 0

IdleMeter == meter = GasMeter_new(0) /\ meter_last = NoCall /\ refund_base = -1 /\ refund_total = 0

IdleStack == stk = Stack_new /\ stk_last = NoCall /\ run_base = <<>> /\ run_pushes = 0 /\ run_pops = 0

IdleStorage == world = Storage_new /\ world_last = NoCall /\ world_calls = 0

IdleMemory == mem = Memory_new /\ mem_last = NoCall

IdleValidator == candidate = [validator |-> Validator_new, code |-> <<>>] /\ verdict = Running

IdleSigned == operands = [op |-> "none"] /\ word_result = Running

IdleOptimizer == bytecode = <<>> /\ optimized = Running

Init == InitExec /\ IdleMeter /\ IdleStack /\ IdleStorage /\ IdleMemory /\ IdleValidator
        /\ IdleSigned /\ IdleOptimizer

Next == ExecuteStep \/ ExecuteTrap \/ ExecutePanic \/ ExecuteReturn

\* An execution of Executor::execute on a fresh context.
Spec == Init /\ [][Next]_vars

\* The loop of execute runs on until it returns.
FairSpec == Spec /\ WF_vars(Next)

(***************************************************************************)
(* The Executor after its execute has returned an error: step and execute  *)
(* are public and can be called on it again.  outcome keeps what the first *)
(* call of execute returned.                                               *)
(***************************************************************************)
\* Executor::execute run to its return: the context it leaves and the error
\* it returns, NoError for Ok(ExecutionResult).
execute(ctx) ==
    Bind(RunFrom(ctx, MaxSteps), LAMBDA res:
        IF ~IsOk(res) THEN res
        ELSE R(IF res.ctx.should_continue /\ res.ctx.pc >= Len(res.ctx.code)
               THEN [res.ctx EXCEPT !.success = TRUE]
               ELSE res.ctx,
               NoError))

\* A call of step on the frame that trapped.
StepAgain ==
    /\ outcome.kind = "Err"
    /\ context' = step(context).ctx
    /\ UNCHANGED <<outcome, gas_limit, meterVars, stackVars, storageVars, memoryVars, validatorVars, signedVars, optimizerVars>>

\* A call of execute on the frame that trapped, within MaxSteps iterations.
ExecuteAgain ==
    /\ outcome.kind = "Err"
    /\ \E res \in {execute(context)} :
          /\ res.err # InvalidInstruction("fuel")
          /\ context' = res.ctx
    /\ UNCHANGED <<outcome, gas_limit, meterVars, stackVars, storageVars, memoryVars, validatorVars, signedVars, optimizerVars>>

\* The frames whose trap is followed: the hand-written programs.
InitResume ==
    /\ \E code \in Programs \cup OpcodePrograms \cup ArithmeticPrograms
                        \cup ExpansionPrograms :
          /\ gas_limit \in GasLimits
          /\ context = ExecutionContext_new(1, 2, 0, <<>>, code, gas_limit)
    /\ outcome = Running

ResumeInit == InitResume /\ IdleMeter /\ IdleStack /\ IdleStorage /\ IdleMemory /\ IdleValidator
        /\ IdleSigned /\ IdleOptimizer

ResumeNext ==
    \/ ExecuteStep
    \/ ExecuteTrap
    \/ ExecutePanic
    \/ ExecuteReturn
    \/ StepAgain
    \/ ExecuteAgain

\* An execution of Executor::execute and the calls made on the Executor
\* after it returned an error.
ResumeSpec == ResumeInit /\ [][ResumeNext]_vars

MeterInit == IdleExec /\ InitMeter /\ IdleStack /\ IdleStorage /\ IdleMemory /\ IdleValidator
        /\ IdleSigned /\ IdleOptimizer

MeterNext == Consume \/ Refund

\* Calls of consume and refund on a fresh GasMeter.
MeterSpec == MeterInit /\ [][MeterNext]_vars

StackInit == IdleExec /\ IdleMeter /\ InitStack /\ IdleStorage /\ IdleMemory /\ IdleValidator
        /\ IdleSigned /\ IdleOptimizer

StackNext == Push \/ Pop \/ Peek \/ PeekAt \/ Dup \/ Swap

\* Calls of the Stack's methods on a fresh Stack.
StackSpec == StackInit /\ [][StackNext]_vars

StorageInit == IdleExec /\ IdleMeter /\ IdleStack /\ InitStorage /\ IdleMemory /\ IdleValidator
        /\ IdleSigned /\ IdleOptimizer

StorageNext ==
    \/ SetStorage \/ SetBalance \/ AddBalance \/ SubBalance \/ SetNonce
    \/ IncrementNonce \/ SetCode \/ DeleteAccount
    \/ GetStorage \/ GetBalance \/ GetNonce \/ GetCode \/ RunReading

\* Calls of the Storage's methods on a fresh Storage.
StorageSpec == StorageInit /\ [][StorageNext]_vars

MemoryInit == IdleExec /\ IdleMeter /\ IdleStack /\ IdleStorage /\ InitMemory /\ IdleValidator
        /\ IdleSigned /\ IdleOptimizer

MemoryNext == WriteByte \/ WriteBytes \/ ReadBytes \/ EnsureSize \/ ExpansionCost

\* Calls of the Memory's methods on a fresh Memory.
MemorySpec == MemoryInit /\ [][MemoryNext]_vars

ValidatorInit ==
    IdleExec /\ IdleMeter /\ IdleStack /\ IdleStorage /\ IdleMemory /\ InitValidator
        /\ IdleSigned /\ IdleOptimizer

CopyInit ==
    IdleExec /\ IdleMeter /\ IdleStack /\ IdleStorage /\ InitCopy /\ IdleValidator
        /\ IdleSigned /\ IdleOptimizer

CopyNext == Copy

\* Calls of Memory::copy on a Memory that holds some bytes.
CopySpec == CopyInit /\ [][CopyNext]_vars

OptimizerInit ==
    IdleExec /\ IdleMeter /\ IdleStack /\ IdleStorage /\ IdleMemory /\ IdleValidator
        /\ IdleSigned /\ InitOptimizer

OptimizerNext == Optimize

\* A call of GasOptimization::optimize on a code.
OptimizerSpec == OptimizerInit /\ [][OptimizerNext]_vars

SignedInit ==
    IdleExec /\ IdleMeter /\ IdleStack /\ IdleStorage /\ IdleMemory /\ IdleValidator
        /\ InitSigned /\ IdleOptimizer

SignedNext == Sdiv \/ Smod \/ Slt \/ Sgt

\* One signed arm of execute_opcode run on two words.
SignedSpec == SignedInit /\ [][SignedNext]_vars

ValidatorNext == ValidateBytecode

\* A call of validate_bytecode on a code.
ValidatorSpec == ValidatorInit /\ [][ValidatorNext]_vars

(***************************************************************************)
(* Properties of the executor.                                             *)
(***************************************************************************)
\* The offsets of the JUMPDEST bytes (0x5B) of code that lie outside every
\* PUSH immediate: a walk from offset i that skips the n bytes after PUSH_n.
RECURSIVE JumpdestsFrom(_, _)
JumpdestsFrom(code, i) ==
    IF i >= Len(code) THEN {}
    ELSE LET byte == code[i + 1] IN
         IF byte >= 96 /\ byte <= 127 THEN JumpdestsFrom(code, i + 1 + (byte - 95))
         ELSE (IF byte = 91 THEN {i} ELSE {}) \cup JumpdestsFrom(code, i + 1)

ValidJumpdests(code) == JumpdestsFrom(code, 0)

\* The step about to run decodes `opcode`, passes the arity check and can
\* pay for it: the arm of that opcode is executed.
Executes(ctx, opcode) ==
    /\ LoopCondition(ctx)
    /\ ctx.code[ctx.pc + 1] = opcode
    /\ validate_stack_requirements(ctx, opcode).type = "None"
    /\ calculate_gas_cost(ctx, opcode) <= ctx.gas_meter.available

\* The step about to run is a JUMP, or a JUMPI whose condition is non-zero.
Jumps(ctx) ==
    \/ Executes(ctx, Op.Jump)
    \/ Executes(ctx, Op.Jumpi) /\ Stack_peek_at(ctx.stack, 1).value # 0

JumpTarget(ctx) == Stack_peek_at(ctx.stack, 0).value

\* C1: a JUMP to target t (a JUMPI to t with a non-zero condition) traps if
\* and only if t is not the offset of a JUMPDEST byte outside every PUSH
\* immediate, and otherwise sets pc to t.
C1_JumpTrapsIffNotJumpdest ==
    [][ (outcome = Running /\ Jumps(context)) =>
            LET t == JumpTarget(context) IN
            /\ (outcome'.kind = "Err") <=> (t \notin ValidJumpdests(context.code))
            /\ (t \in ValidJumpdests(context.code)) => context'.pc = t ]_vars

\* C2: gas_used + gas_remaining is the gas limit the frame was created with,
\* in every state of an execution and in every ExecutionResult.
C2_GasUsedPlusRemainingIsLimit ==
    /\ GasMeter_used(context.gas_meter) >= 0
    /\ GasMeter_used(context.gas_meter) + context.gas_meter.available = gas_limit
    /\ outcome.kind = "Ok" =>
          /\ outcome.gas_used >= 0
          /\ outcome.gas_used + outcome.gas_remaining = gas_limit

\* A result that reports gas both used and left.
C2_Witness ==
    /\ outcome.kind = "Ok"
    /\ outcome.gas_used > 0
    /\ outcome.gas_remaining > 0

\* A step that neither halts the frame nor traps leaves less gas available.
StepSpendsGas ==
    (outcome = Running /\ outcome' = Running /\ context' # context) =>
        \/ ~context'.should_continue
        \/ context'.gas_meter.available < context.gas_meter.available

ReturnWindow(ctx) ==
    LET offset == Stack_peek_at(ctx.stack, 0).value
        size == Stack_peek_at(ctx.stack, 1).value
    IN [i \in 1..size |->
           IF offset + i <= Len(ctx.memory) THEN ctx.memory[offset + i] ELSE 0]

\* A step that halts the frame is a STOP, a RETURN or a REVERT and leaves
\* the success flag and the return data the claim names.
HaltingStep ==
    (outcome = Running /\ LoopCondition(context) /\ outcome' = Running
        /\ ~context'.should_continue) =>
        LET opcode == context.code[context.pc + 1] IN
        /\ opcode \in {Op.Stop, Op.Return, Op.Revert}
        /\ context'.success = (opcode # Op.Revert)
        /\ context'.return_data =
              IF opcode = Op.Stop THEN <<>> ELSE ReturnWindow(context)

\* The result reports what the halting step left; running off the end of
\* the code is a success with empty return data.
ResultOfHalt ==
    (outcome = Running /\ outcome'.kind = "Ok") =>
        IF context.should_continue
        THEN outcome'.success /\ outcome'.return_data = <<>>
        ELSE /\ outcome'.success = context.success
             /\ outcome'.return_data = context.return_data

\* C4: a run that ends by STOP, RETURN or running off the end of the code
\* reports success = true, one that ends by REVERT reports success = false;
\* RETURN and REVERT report the memory window [offset, offset + size) given
\* by the top two stack items, STOP and end-of-code report empty data.
C4_HaltOutcome == [][HaltingStep /\ ResultOfHalt]_vars

\* A REVERT that reported a non-empty window holding a written byte.
C4_Witness ==
    /\ outcome.kind = "Ok"
    /\ ~outcome.success
    /\ Len(outcome.return_data) > 1
    /\ \E i \in DOMAIN outcome.return_data : outcome.return_data[i] # 0

\* C5: when a step traps, the caller receives a result with success = false
\* that carries the gas used up to the trap and every log appended before it.
C5_TrapYieldsFailedResult ==
    outcome.kind = "Err" =>
        \E result \in {ExecutionResult(context)} :
            /\ outcome = result
            /\ ~result.success
            /\ result.gas_used = GasMeter_used(context.gas_meter)
            /\ result.logs = context.logs

\* The gas a run of code consumes when gas is no constraint: the gas used by
\* a run under TestGasLimit that did not run out of it; -1 otherwise.
GasNeeded(code) ==
    LET res == RunFrom(ExecutionContext_new(1, 2, 0, <<>>, code, TestGasLimit), MaxSteps)
    IN IF IsOk(res) THEN GasMeter_used(res.ctx.gas_meter) ELSE -1

\* C6: run with a gas limit one less than the gas the program needs, the
\* program traps OutOfGas with gas_used equal to the gas limit and
\* gas_remaining 0.
C6_OneShortUsesAllGas ==
    (outcome.kind # "Running" /\ GasNeeded(context.code) = gas_limit + 1) =>
        /\ outcome.kind = "Err"
        /\ outcome.error.type = "Gas"
        /\ GasMeter_used(context.gas_meter) = gas_limit
        /\ context.gas_meter.available = 0

(***************************************************************************)
(* Properties of the gas meter.                                            *)
(***************************************************************************)
\* C7: after any sequence of consume and refund calls the available gas is
\* between 0 and the limit; a consume that fails leaves the available gas
\* unchanged and reports the amount requested and the amount available.
C7_MeterWithinLimit ==
    /\ 0 <= meter.available
    /\ meter.available <= meter.limit
    /\ (meter_last.op = "consume" /\ meter_last.err.type # "None") =>
          /\ meter = meter_last.before
          /\ meter_last.err = OutOfGas(meter_last.amount, meter_last.before.available)

\* A consume that failed on a meter that had gas left after a refund.
C7_Witness ==
    /\ meter_last.op = "consume"
    /\ meter_last.err.type = "Gas"
    /\ meter.available > 0
    /\ refund_total > 0

\* C8: the gas added back by the refund calls in total never exceeds half of
\* the gas used before the first of them.
C8_RefundsWithinHalfOfUsed ==
    refund_base >= 0 => 2 * refund_total <= refund_base

(***************************************************************************)
(* Properties of the stack.                                                *)
(***************************************************************************)
\* C9: the depth never exceeds the capacity, and n successful pushes followed
\* by n successful pops restore the depth and the contents the stack had
\* before them.
C9_DepthBoundedAndPushPopRestores ==
    /\ Len(stk.items) <= stk.max_size
    /\ (run_pushes > 0 /\ run_pops = run_pushes) => stk.items = run_base

\* Two pushes undone by two pops on a stack that was not empty.
C9_Witness ==
    /\ run_pushes >= 2
    /\ run_pops = run_pushes
    /\ run_base # <<>>
    /\ stk.items = run_base

\* C10: push fails with Overflow exactly when the depth equals the capacity;
\* pop (d = 0), peek_at(d), dup(d) and swap(d) fail with Underflow exactly
\* when the depth is at most d; a failed operation leaves the stack unchanged.
C10_FailuresExactAndHarmless ==
    stk_last.op # "none" =>
        LET b == stk_last.before
            depth == Len(b.items)
        IN /\ stk_last.op = "push" =>
                 /\ (stk_last.err.type # "None") <=> (depth = b.max_size)
                 /\ (stk_last.err.type # "None") => stk_last.err = StackOverflow
           /\ stk_last.op \in {"pop", "peek_at", "dup", "swap"} =>
                 (stk_last.err = StackUnderflow) <=> (depth <= stk_last.depth)
           /\ stk_last.err.type # "None" => stk = b

\* A swap refused for a depth the stack does not reach, and a push refused
\* on a full stack before it.
C10_Witness ==
    /\ stk_last.op = "swap"
    /\ stk_last.err = StackUnderflow
    /\ stk_last.depth >= 1
    /\ Len(stk.items) = stk.max_size
    /\ Len(stk.items) >= 1

(***************************************************************************)
(* Properties of the opcode table and of the arms of the executor.         *)
(***************************************************************************)
\* The iteration of the loop that is taken ran its step to Ok.
StepSucceeds ==
    /\ outcome = Running
    /\ LoopCondition(context)
    /\ outcome' = Running
    /\ context' # context

\* The code byte the step decodes.
CurrentByte == context.code[context.pc + 1]

\* C11: executing PUSH_n (byte 0x5F + n) pushes the next n code bytes read
\* big-endian and advances pc by 1 + n.
C11_PushReadsItsImmediate ==
    [][ (StepSucceeds /\ CurrentByte >= 96 /\ CurrentByte <= 127) =>
            LET n == CurrentByte - 95 IN
            /\ context.pc + 1 + n <= Len(context.code)
            /\ context'.stack.items =
                  Append(context.stack.items,
                         from_bytes_be(SubSeq(context.code, context.pc + 2,
                                              context.pc + 1 + n)))
            /\ context'.pc = context.pc + 1 + n ]_vars

\* C12: executing DUP_n (byte 0x7F + n) pushes a copy of the n-th item from
\* the top; executing SWAP_n (byte 0x8F + n) exchanges the top item with the
\* item n positions below it and leaves the others in place.
C12_DupSwapReachDepthN ==
    [][ StepSucceeds =>
            LET items == context.stack.items
                len == Len(items)
            IN /\ (CurrentByte >= 128 /\ CurrentByte <= 143) =>
                     LET n == CurrentByte - 127 IN
                     n <= len =>
                        context'.stack.items = Append(items, items[len + 1 - n])
               /\ (CurrentByte >= 144 /\ CurrentByte <= 159) =>
                     LET n == CurrentByte - 143 IN
                     n < len =>
                        context'.stack.items =
                           [items EXCEPT ![len] = items[len - n],
                                         ![len - n] = items[len]] ]_vars

\* The number of items the arm of an opcode pushes (execute_push and the
\* arms of execute_opcode): none for the arms that only pop, store, jump,
\* log or halt, one for every other arm.
PushCount(opcode) ==
    IF opcode \in {Op.Stop, Op.Pop, Op.Mstore, Op.Mstore8, Op.Sstore, Op.Jump,
                   Op.Jumpi, Op.Jumpdest, Op.Log0, Op.Log1, Op.Log2, Op.Log3,
                   Op.Log4, Op.Return, Op.Revert}
          \/ is_swap(opcode)
    THEN 0 ELSE 1

\* C13: a successful execution of an opcode with pop_count p and push
\* count q changes the stack depth by exactly q - p.
C13_DepthChangeMatchesArity ==
    [][ StepSucceeds =>
            LET opcode == from_byte(CurrentByte).opcode IN
            Len(context'.stack.items) - Len(context.stack.items)
                = PushCount(opcode) - pop_count(opcode) ]_vars


(***************************************************************************)
(* C14.  An iteration of the loop whose current byte is outside the bytes  *)
(* of the Opcode enum returns InvalidOpcode carrying that byte, and the    *)
(* context after it (gas meter, pc, stack, memory, storage, logs) is the   *)
(* context before it.                                                      *)
(***************************************************************************)
\* The discriminants of the Opcode enum and the ranges folded onto
\* Push1, Dup1 and Swap1.
RecognizedBytes == {Op[name] : name \in DOMAIN Op} \cup (96..159)

C14_UnknownByteTrapsUntouched ==
    [][ (/\ outcome = Running
         /\ LoopCondition(context)
         /\ CurrentByte \notin RecognizedBytes)
        => /\ outcome' = [kind |-> "Err", error |-> InvalidOpcode(CurrentByte)]
           /\ context'.gas_meter = context.gas_meter
           /\ context'.pc = context.pc
           /\ context'.stack = context.stack
           /\ context'.memory = context.memory
           /\ context'.storage = context.storage
           /\ context'.logs = context.logs
           /\ context' = context ]_vars

\* The trap on byte 0x0c reached after gas was spent and a log recorded.
C14_Witness ==
    /\ outcome = [kind |-> "Err", error |-> InvalidOpcode(12)]
    /\ context.pc = 5
    /\ GasMeter_used(context.gas_meter) > 0
    /\ Len(context.logs) = 1


(***************************************************************************)
(* C15.  The run of PUSH1 2, PUSH1 3, ADD, STOP with gas limit 1000        *)
(* returns a successful result with empty return data and gas_used = 9.    *)
(***************************************************************************)
AddProgram == <<96, 2, 96, 3, 1, 0>>

C15_AddProgramUsesNineGas ==
    (/\ context.code = AddProgram
     /\ gas_limit = TestGasLimit
     /\ outcome # Running)
    => /\ outcome.kind = "Ok"
       /\ outcome.success
       /\ outcome.return_data = <<>>
       /\ outcome.gas_used = 9


(***************************************************************************)
(* C16.  A successful SSTORE of value `new` under `key` is charged by      *)
(* comparing `new` with the value the callee's storage held under `key`    *)
(* before the write: 20000 from zero to nonzero, 15000 from nonzero to     *)
(* zero, 5000 from nonzero to a different nonzero; when the two are equal, *)
(* 5000 if the current value is nonzero and 15000 if it is zero.           *)
(***************************************************************************)
\* storage[callee][key] of a context, zero when absent.
StoredAt(ctx, key) ==
    IF ctx.address \in DOMAIN ctx.storage
       /\ key \in DOMAIN ctx.storage[ctx.address].storage
    THEN ctx.storage[ctx.address].storage[key]
    ELSE 0

SstoreCharge(current, new) ==
    IF current = new THEN (IF current # 0 THEN 5000 ELSE 15000)
    ELSE IF current = 0 THEN 20000
    ELSE IF new = 0 THEN 15000
    ELSE 5000

C16_SstoreChargedByTransition ==
    [][ (StepSucceeds /\ CurrentByte = 85)
        => LET items == context.stack.items
               key == items[Len(items)]
               new == items[Len(items) - 1]
           IN /\ context.gas_meter.available - context'.gas_meter.available
                    = SstoreCharge(StoredAt(context, key), new)
              /\ StoredAt(context', key) = new ]_vars

\* Slot 0 set to 1 and then cleared: 20000 and then 15000 were charged.
C16_Witness ==
    /\ context.code = <<96, 1, 96, 0, 85, 96, 0, 96, 0, 85, 0>>
    /\ context.pc = 10
    /\ GasMeter_used(context.gas_meter) = 3 + 3 + 20000 + 3 + 3 + 15000
    /\ StoredAt(context, 0) = 0


(***************************************************************************)
(* Properties of the Storage.                                              *)
(***************************************************************************)
\* The balance the accounts hold for an address, zero for an absent one.
BalanceIn(accounts, address) ==
    IF address \in DOMAIN accounts THEN accounts[address].balance ELSE 0

\* C17: no account's storage map holds a key whose value is zero; after
\* set_storage(a, k, 0), also when k held a non-zero value before it,
\* get_storage(a, k) is 0 and k is absent from the map of a; and
\* set_storage(a, k, 0) on a map of a that lacks k changes nothing.
C17_ZeroIsNeverStored ==
    /\ \A a \in DOMAIN world : \A k \in DOMAIN world[a].storage :
            world[a].storage[k] # 0
    /\ (world_last.op = "set_storage" /\ world_last.value = 0)
        => LET a == world_last.address
               k == world_last.key
               before == world_last.before
           IN /\ Storage_get_storage(world, a, k) = 0
              /\ a \in DOMAIN world
              /\ k \notin DOMAIN world[a].storage
              /\ (a \in DOMAIN before /\ k \notin DOMAIN before[a].storage)
                    => world = before

\* set_storage(1, 0, 0) on a Storage that held a non-zero value there, and
\* which another call had written.
C17_Witness ==
    /\ world_last.op = "set_storage"
    /\ world_last.address = 1
    /\ world_last.key = 0
    /\ world_last.value = 0
    /\ 1 \in DOMAIN world_last.before
    /\ 0 \in DOMAIN world_last.before[1].storage
    /\ world_last.before[1].storage[0] = 2
    /\ world_calls = 2

\* The address read by the last call made on the Storage: BALANCE reads
\* the address it pops, SLOAD and SELFBALANCE read the callee.
AddressRead ==
    IF world_last.op = "execute" /\ world_last.key = 49
    THEN world_last.value
    ELSE world_last.address

\* What a read returns for an absent account: the empty code for get_code,
\* a stack holding zero for a reading opcode, zero for the others.
DefaultOf(op) ==
    IF op = "get_code" THEN <<>> ELSE IF op = "execute" THEN <<0>> ELSE 0

C19_SubBalanceFailsIffExceeds ==
    world_last.op = "sub_balance"
    => LET addr == world_last.address
           amount == world_last.value
           before == world_last.before
           failed == world_last.result.type = "InsufficientBalance"
       IN /\ failed <=> amount > BalanceIn(before, addr)
          /\ failed => \A a \in Addresses : BalanceIn(world, a) = BalanceIn(before, a)
          /\ ~failed => /\ world_last.result = NoError
                         /\ BalanceIn(world, addr) = BalanceIn(before, addr) - amount

(***************************************************************************)
(* Properties of the Memory.                                               *)
(***************************************************************************)
\* C20: read_bytes(o, s) returns exactly s bytes, every returned byte at a
\* position at or past the length of the memory is zero, and the memory
\* after the read is the memory before it.
C20_ReadBytesPadsWithoutGrowing ==
    mem_last.op = "read_bytes"
    => LET o == mem_last.offset
           size == mem_last.size
           before == mem_last.before
       IN /\ Len(mem_last.result) = size
          /\ \A i \in 1..size :
                (o + i - 1 >= Len(before)) => mem_last.result[i] = 0
          /\ Len(mem) = Len(before)
          /\ mem = before

\* A read that starts inside the memory, on a byte that was written, and
\* ends past its length.
C20_Witness ==
    /\ mem_last.op = "read_bytes"
    /\ mem_last.offset < Len(mem_last.before)
    /\ mem_last.offset + mem_last.size > Len(mem_last.before)
    /\ mem_last.result[1] = 7
    /\ mem_last.result[mem_last.size] = 0


\* The number of 32-byte words that cover size bytes.
WordsCovering(size) == CHOOSE k \in 0..size : 32 * k >= size /\ 32 * (k - 1) < size

Max(a, b) == IF a >= b THEN a ELSE b

\* C21: with c the words covering the current size and n the words covering
\* the larger of the current and the new size, Memory::expansion_cost and
\* GasMeter::memory_expansion_cost both return
\* (n - c) * 3 + n * n / 512 - c * c / 512, which is zero when n <= c.
C21_ExpansionCostFormula ==
    mem_last.op = "expansion_cost"
    => LET current_size == Len(mem_last.before)
           c == WordsCovering(current_size)
           n == WordsCovering(Max(current_size, mem_last.size))
           cost == (n - c) * 3 + (n * n) \div 512 - (c * c) \div 512
       IN /\ mem_last.result.meter = cost
          /\ mem_last.result.memory = cost
          /\ n <= c => mem_last.result.meter = 0 /\ mem_last.result.memory = 0

\* An expansion of a memory of at least one word by one word, across a size
\* where the quadratic term steps up.
C21_Witness ==
    /\ mem_last.op = "expansion_cost"
    /\ Len(mem_last.before) = 704
    /\ mem_last.size = 736
    /\ mem_last.result.meter = 4
    /\ mem_last.result.memory = 4


(***************************************************************************)
(* C22.  The logs of the frame only grow: across every step the logs       *)
(* before are a prefix of the logs after, a step adds at most one entry,   *)
(* at the end, and only when it executes a LOG opcode; every entry has     *)
(* between 0 and 4 topics and the callee as its address.                   *)
(***************************************************************************)
IsPrefix(s, t) == Len(s) <= Len(t) /\ SubSeq(t, 1, Len(s)) = s

C22_LogsOnlyGrow ==
    [][ /\ IsPrefix(context.logs, context'.logs)
        /\ Len(context'.logs) <= Len(context.logs) + 1
        /\ Len(context'.logs) > Len(context.logs)
              => StepSucceeds /\ CurrentByte >= 160 /\ CurrentByte <= 164
        /\ \A i \in 1..Len(context'.logs) :
              /\ Len(context'.logs[i].topics) >= 0
              /\ Len(context'.logs[i].topics) <= 4
              /\ context'.logs[i].address = context'.address ]_vars

\* LOG0 and then LOG1 have executed: two entries, in that order.
C22_Witness ==
    /\ Len(context.logs) = 2
    /\ context.logs[1].topics = <<>>
    /\ Len(context.logs[2].topics) = 1
    /\ context.logs[1].data # context.logs[2].data


(***************************************************************************)
(* C30.  A successful LOGn takes the top item as the offset, the item      *)
(* below it as the size and the n items below those, from the top down, as *)
(* the topics, and appends exactly one entry with the bytes                *)
(* memory[offset, offset + size) as data and those n topics.               *)
(***************************************************************************)
C30_LogTakesOffsetSizeThenTopics ==
    [][ (StepSucceeds /\ CurrentByte >= 160 /\ CurrentByte <= 164)
        => LET n == CurrentByte - 160
               items == context.stack.items
               len == Len(items)
               offset == items[len]
               size == items[len - 1]
               topics == [i \in 1..n |-> to_bytes_be(items[len - 1 - i])]
           IN /\ Len(context'.logs) = Len(context.logs) + 1
              /\ context'.logs[Len(context'.logs)].topics = topics
              /\ context'.logs[Len(context'.logs)].data
                    = [i \in 1..size |-> IF offset + i <= Len(context.memory)
                                          THEN context.memory[offset + i] ELSE 0]
              /\ context'.stack.items = SubSeq(items, 1, len - 2 - n) ]_vars


(***************************************************************************)
(* C23.  A step on ADD, SUB or MUL with two operands on the stack and the  *)
(* gas to pay for it does not trap: it replaces the operands a (top) and b *)
(* by a value of the range of a word, which is a op b whenever a op b is   *)
(* itself in that range.                                                   *)
(***************************************************************************)
C23_ArithmeticWrapsWithoutTrapping ==
    [][ (/\ outcome = Running
         /\ LoopCondition(context)
         /\ CurrentByte \in {1, 2, 3}
         /\ Len(context.stack.items) >= 2
         /\ context.gas_meter.available >= 5)
        => LET items == context.stack.items
               a == items[Len(items)]
               b == items[Len(items) - 1]
               exact == IF CurrentByte = 1 THEN a + b
                        ELSE IF CurrentByte = 2 THEN a * b
                        ELSE a - b
           IN /\ outcome' = Running
              /\ Len(context'.stack.items) = Len(items) - 1
              /\ context'.stack.items[Len(items) - 1] >= 0
              /\ exact >= 0 => context'.stack.items[Len(items) - 1] = exact ]_vars


(***************************************************************************)
(* Properties of the validator.                                            *)
(***************************************************************************)
\* The linear walk that skips the n = byte - 0x5F immediate bytes after each
\* PUSHn: TRUE when, from index i on, it meets only recognized bytes and no
\* PUSHn with fewer than n bytes left.
WalkAccepts(code) ==
    LET ok[i \in 0..(Len(code) + 33)] ==
            IF i >= Len(code) THEN TRUE
            ELSE LET byte == code[i + 1] IN
                 IF byte \notin RecognizedBytes THEN FALSE
                 ELSE IF byte >= 96 /\ byte <= 127
                 THEN Len(code) - (i + 1) >= byte - 95 /\ ok[i + 1 + (byte - 95)]
                 ELSE ok[i + 1]
    IN ok[0]

\* The indices the walk visits as opcodes.
OpcodePositions(code) ==
    LET visited[i \in 0..(Len(code) + 33)] ==
            IF i >= Len(code) THEN {}
            ELSE LET byte == code[i + 1] IN
                 {i} \cup (IF byte >= 96 /\ byte <= 127
                           THEN visited[i + 1 + (byte - 95)]
                           ELSE visited[i + 1])
    IN visited[0]

\* validate_bytecode returned, and not for the heuristic security checks.
AcceptedSecurityAside ==
    verdict.error.type \in {"None", "SecurityValidation"}

\* C24: for a code within the size cap, validate_bytecode accepts (the
\* heuristic security checks aside) if and only if the walk that skips the
\* n immediate bytes of each PUSHn meets only recognized opcode bytes and no
\* PUSHn with fewer than n bytes remaining.
C24_ValidatorAcceptsIffWalkAccepts ==
    (/\ verdict # Running
     /\ Len(candidate.code) <= candidate.validator.max_code_size)
    => (AcceptedSecurityAside <=> WalkAccepts(candidate.code))

\* C25: validate_bytecode returns an error for every code that has the byte
\* 0xFF at an opcode position.
C25_ValidatorRejectsFF ==
    (/\ verdict # Running
     /\ \E i \in OpcodePositions(candidate.code) : candidate.code[i + 1] = 255)
    => verdict.error.type # "None"

(***************************************************************************)
(* C26.  No execution of a code that validate_bytecode accepts returns     *)
(* InvalidInstruction.                                                     *)
(***************************************************************************)
C26_AcceptedCodeNeverInvalidInstruction ==
    (/\ outcome.kind = "Err"
     /\ validate_bytecode(Validator_new, context.code) = NoError)
    => outcome.error.type # "InvalidInstruction"

(***************************************************************************)
(* C27, C28.  What a step that traps leaves behind.                        *)
(***************************************************************************)
\* The iteration of execute taken in this step returned the error of its
\* step.
StepTrapped == outcome = Running /\ outcome'.kind = "Err"

\* C27: a step that traps StackUnderflow or StackOverflow does so in the
\* arity pre-check of the opcode, before any gas is consumed, with pc and
\* stack unchanged.
C27_StackTrapsInPrecheck ==
    [][(StepTrapped /\ outcome'.error.type = "Stack")
          => /\ validate_stack_requirements(
                    context, from_byte(context.code[context.pc + 1]).opcode)
                  = outcome'.error
             /\ context'.gas_meter = context.gas_meter
             /\ context'.pc = context.pc
             /\ context'.stack = context.stack]_vars

\* C28: a step that traps OutOfGas leaves stack, memory, storage, logs, pc
\* and the available gas unchanged.
C28_OutOfGasLeavesFrameUnchanged ==
    [][(StepTrapped /\ outcome'.error.type = "Gas")
          => /\ context'.stack = context.stack
             /\ context'.memory = context.memory
             /\ context'.storage = context.storage
             /\ context'.logs = context.logs
             /\ context'.pc = context.pc
             /\ context'.gas_meter.available = context.gas_meter.available]_vars

(***************************************************************************)
(* C29.  A frame that trapped OutOfGas cannot resume.                      *)
(***************************************************************************)
\* execute has returned GasError::OutOfGas.
TrappedOutOfGas == outcome.kind = "Err" /\ outcome.error.type = "Gas"

\* C29: once a step has trapped OutOfGas, no later call of step or execute
\* changes pc, stack, memory, storage, gas or logs of the frame.
C29_OutOfGasFrameCannotResume ==
    [][TrappedOutOfGas
          => /\ context'.pc = context.pc
             /\ context'.stack = context.stack
             /\ context'.memory = context.memory
             /\ context'.storage = context.storage
             /\ context'.gas_meter = context.gas_meter
             /\ context'.logs = context.logs]_vars

(***************************************************************************)
(* C31.  The gas of a successful LOGn.                                     *)
(***************************************************************************)
\* The gas the step has consumed.
StepGas == context.gas_meter.available - context'.gas_meter.available

\* C31: a successful LOGn that logs s bytes of data consumes exactly
\* 375 * (1 + n) + 8 * s gas plus the expansion cost of memory to the end
\* of the window (the offset being the operand the arm pops as offset).
C31_LogGasCountsData ==
    [][ (StepSucceeds /\ CurrentByte >= 160 /\ CurrentByte <= 164)
        => LET n == CurrentByte - 160
               items == context.stack.items
               offset == items[Len(items) - n]
               s == Len(context'.logs[Len(context'.logs)].data)
           IN StepGas = 375 * (1 + n) + 8 * s
                          + memory_expansion_cost(Memory_size(context.memory),
                                                  offset + s) ]_vars

(***************************************************************************)
(* C32.  The gas of a successful KECCAK256.                                *)
(***************************************************************************)
\* C32: a successful KECCAK256 consumes exactly 30 + 6 * ceil(size / 32) gas
\* plus the expansion cost of memory to offset + size, where offset and
\* size are the operands the arm pops (offset on top) and hashes
\* memory[offset, offset + size) with.
C32_Sha3GasCountsHashedWords ==
    [][ (StepSucceeds /\ CurrentByte = 32)
        => LET items == context.stack.items
               offset == items[Len(items)]
               size == items[Len(items) - 1]
           IN /\ context'.stack.items[Len(items) - 1]
                    = Keccak256_digest(read_bytes(context.memory, offset, size))
              /\ StepGas = 30 + 6 * ((size + 31) \div 32)
                             + memory_expansion_cost(Memory_size(context.memory),
                                                     offset + size) ]_vars

(***************************************************************************)
(* C33.  The gas of a successful EXP.                                      *)
(***************************************************************************)
\* The number of bytes of a value, 0 for zero.
RECURSIVE ByteLength(_)
ByteLength(v) == IF v = 0 THEN 0 ELSE 1 + ByteLength(v \div 256)

\* C33: a successful EXP consumes exactly 10 + 10 * L gas, L being the
\* length in bytes of the operand the arm raises the base to (the item
\* below the top).
C33_ExpGasCountsExponentBytes ==
    [][ (StepSucceeds /\ CurrentByte = 10)
        => LET items == context.stack.items
               exponent == items[Len(items) - 1]
           IN StepGas = 10 + 10 * ByteLength(exponent) ]_vars

(***************************************************************************)
(* C34, C35.  The signed arms read their operands in two's complement over *)
(* 256 bits.                                                               *)
(***************************************************************************)
\* The integer a word with a small magnitude stands for.
Signed256(word) ==
    IF word[1] >= 128 THEN 0 - from_bytes_be(Negated(word)) ELSE from_bytes_be(word)

\* The signed quotient and remainder of two words as words; the most
\* negative word, which has no small magnitude, is taken case by case.
SignedQuotient(a, b) ==
    IF b = ZeroWord THEN ZeroWord
    ELSE IF a = MinI256 /\ b = Word256(0 - 1) THEN MinI256
    ELSE IF a = MinI256 /\ b = Word256(1) THEN MinI256
    ELSE IF a = MinI256 /\ b = MinI256 THEN OneWord
    ELSE IF b = MinI256 THEN ZeroWord
    ELSE Word256(i128_div(Signed256(a), Signed256(b)))

SignedRemainder(a, b) ==
    IF b = ZeroWord THEN ZeroWord
    ELSE IF a = MinI256 /\ b \in {Word256(0 - 1), Word256(1), MinI256} THEN ZeroWord
    ELSE IF b = MinI256 THEN a
    ELSE Word256(i128_rem(Signed256(a), Signed256(b)))

\* The operand pairs whose signed quotient is stated above.
QuotientStated ==
    operands.a = MinI256 => operands.b \in {ZeroWord, Word256(0 - 1), Word256(1), MinI256}

\* C34: SDIV and SMOD push the signed quotient and remainder of their
\* operands read in two's complement over 256 bits, re-encoded in two's
\* complement; a zero divisor yields zero and SDIV(MIN_I256, -1) yields
\* MIN_I256; neither traps.
C34_SignedDivisionOverFullWidth ==
    (/\ word_result # Running
     /\ operands.op \in {"Sdiv", "Smod"}
     /\ QuotientStated)
    => /\ word_result.kind = "Pushed"
       /\ word_result.word = IF operands.op = "Sdiv"
                              THEN SignedQuotient(operands.a, operands.b)
                              ELSE SignedRemainder(operands.a, operands.b)

\* a is below b as two's complement integers: by the sign bits when they
\* differ, and by the order of the words when they agree.
SignedLess(a, b) ==
    IF (a[1] >= 128) # (b[1] >= 128) THEN a[1] >= 128 ELSE Uint256_lt(a, b)

\* C35: SLT(a, b) pushes 1 exactly when signed(a) < signed(b) and SGT(a, b)
\* pushes 1 exactly when signed(a) > signed(b); else they push 0.
C35_SignedComparisons ==
    (/\ word_result # Running
     /\ operands.op \in {"Slt", "Sgt"})
    => /\ word_result.kind = "Pushed"
       /\ word_result.word = IF (IF operands.op = "Slt"
                                  THEN SignedLess(operands.a, operands.b)
                                  ELSE SignedLess(operands.b, operands.a))
                              THEN OneWord ELSE ZeroWord

(***************************************************************************)
(* C36.  Memory::copy.                                                     *)
(***************************************************************************)
\* The byte at an offset, the bytes past the length reading as zero.
ByteAt(data, offset) == IF offset < Len(data) THEN data[offset + 1] ELSE 0

\* C36: copy(dst, src, size) leaves memory[dst, dst + size) equal to what
\* memory[src, src + size) held before the call, also when the two ranges
\* overlap, and leaves every byte outside [dst, dst + size) as it was.
C36_CopyMovesTheSourceRange ==
    mem_last.op = "copy"
    => LET dst == mem_last.offset
           src == mem_last.src
           size == mem_last.size
           before == mem_last.before
       IN /\ \A i \in 0..(size - 1) : ByteAt(mem, dst + i) = ByteAt(before, src + i)
          /\ \A j \in 0..Max(Len(mem), Len(before)) :
                (j < dst \/ j >= dst + size) => ByteAt(mem, j) = ByteAt(before, j)
          /\ Len(mem) >= Len(before)

\* A copy onto a range that overlaps its source from above, of two bytes
\* that differ.
C36_Witness ==
    /\ mem_last.op = "copy"
    /\ mem_last.size >= 2
    /\ mem_last.src < mem_last.offset
    /\ mem_last.offset < mem_last.src + mem_last.size
    /\ ByteAt(mem_last.before, mem_last.src) # ByteAt(mem_last.before, mem_last.src + 1)
    /\ mem # mem_last.before

(***************************************************************************)
(* C37.  CODECOPY.                                                         *)
(***************************************************************************)
\* C37: after a successful CODECOPY(dst, src, size), dst on top, the byte
\* memory[dst + i] is code[src + i] for every i < size with src + i inside
\* the code and zero for every i < size with src + i at or past its end, and
\* the memory holds at least dst + size bytes (when size is not zero).
C37_CodecopyZeroFills ==
    [][ (StepSucceeds /\ CurrentByte = 57)
        => LET items == context.stack.items
               dst == items[Len(items)]
               src == items[Len(items) - 1]
               size == items[Len(items) - 2]
           IN /\ \A i \in 0..(size - 1) :
                    ByteAt(context'.memory, dst + i)
                        = IF src + i < Len(context.code)
                          THEN context.code[src + i + 1] ELSE 0
              /\ size > 0 => Len(context'.memory) >= dst + size ]_vars

(***************************************************************************)
(* C38.  The heuristic security checks of validate_bytecode.               *)
(***************************************************************************)
\* The opcode positions of a code that hold one of the bytes.
OpcodesAmong(code, bytes) ==
    Cardinality({i \in OpcodePositions(code) : code[i + 1] \in bytes})

\* C38: with security checks enabled, a non-empty code that passes the
\* size and opcode checks is rejected exactly when at least 10% of its
\* opcodes (PUSH immediates not counted) are EXP, SSTORE or KECCAK256, or
\* at least 20% of its opcodes are JUMP or JUMPI.
C38_SecurityRejectsByOpcodeShare ==
    (/\ verdict # Running
     /\ candidate.validator.security_checks
     /\ candidate.code # <<>>
     /\ Len(candidate.code) <= candidate.validator.max_code_size
     /\ validate_opcodes(candidate.code) = NoError)
    => LET code == candidate.code
           opcodes == Cardinality(OpcodePositions(code))
       IN (verdict.error.type # "None")
             <=> \/ 10 * OpcodesAmong(code, {10, 85, 32}) >= opcodes
                 \/ 5 * OpcodesAmong(code, {86, 87}) >= opcodes

(***************************************************************************)
(* C39.  Memory expansion gas is paid once per word of memory.             *)
(***************************************************************************)
\* What the step is charged before its arm runs.
StaticCost ==
    IF CurrentByte >= 96 /\ CurrentByte <= 127 THEN GasCosts.push
    ELSE calculate_gas_cost(context, from_byte(CurrentByte).opcode)

\* C39: the expansion gas charged so far is memory_expansion_cost(0, size
\* of the memory).  It is zero on the fresh frame, so this states that
\* every successful step is charged, over its static cost, exactly the
\* cost of expanding the memory from its size before to its size after.
C39_ExpansionGasMatchesMemorySize ==
    [][ StepSucceeds
        => StepGas - StaticCost
              = memory_expansion_cost(0, Memory_size(context'.memory))
                  - memory_expansion_cost(0, Memory_size(context.memory)) ]_vars

(***************************************************************************)
(* C40.  Executing the optimized code gives the outcome of the original.   *)
(***************************************************************************)
\* Executor::execute on a fresh frame of the code with the gas limit of the
\* command line.
Executed(code) ==
    execute(ExecutionContext_new(1, 2, 0, <<>>, code, CliGasLimit))

\* The run ended within MaxSteps iterations of the loop.
Ended(run) == run.err # InvalidInstruction("fuel")

\* C40: when executing a code with sufficient gas returns a result,
\* executing optimize(code) returns a result with the same success flag,
\* return data, logs and final storage, and uses no more gas.
C40_OptimizedCodeBehavesTheSame ==
    optimized # Running
    => LET original == Executed(bytecode)
           improved == Executed(optimized.code)
       IN (IsOk(original) /\ Ended(improved))
          => /\ IsOk(improved)
             /\ improved.ctx.success = original.ctx.success
             /\ improved.ctx.return_data = original.ctx.return_data
             /\ improved.ctx.logs = original.ctx.logs
             /\ improved.ctx.storage = original.ctx.storage
             /\ GasMeter_used(improved.ctx.gas_meter)
                   <= GasMeter_used(original.ctx.gas_meter)

====
